---- MODULE Spec2Model ----
(***************************************************************************)
(* Model of the klf-yap traversal engine: the DiskFileSystem walkers       *)
(* (lstatSync, lstatCallback), the FileUtil walker (statPathlike), the     *)
(* query entry point (fsq / readPathlike) and the FileWorker task queue.    *)
(*                                                                         *)
(* Strings that the code slices, joins or splits (paths, link texts, path  *)
(* expressions) are sequences of one-character strings, so that the string *)
(* operations of the code are computed and not assumed.                    *)
(***************************************************************************)
EXTENDS Integers, Sequences, FiniteSets, TLC

\* ------------------------------------------------------------------------
\* Bounds of the model
\* ------------------------------------------------------------------------

\* Largest number of plain files in the generated flat directory.
MaxFiles == 3

\* Largest finite maxConcurrency the worker is configured with.
MaxConc == 2

\* Deepest chain of nested link-target resolutions an asynchronous walk of
\* the model makes; the answer of a readlink that would nest deeper stays
\* outstanding.
MaxLinkDepth == 2

\* Symbolic links the operating system follows in one path lookup before
\* the lookup fails (ELOOP).
MAXSYMLINKS == 4

\* Nested lstatSync calls the stack of the runtime holds; the call beyond
\* it raises a RangeError.
StackLimit == 5

\* ------------------------------------------------------------------------
\* Program constants
\* ------------------------------------------------------------------------

\* Number.MAX_SAFE_INTEGER, the "unbounded" concurrency (only compared).
MAX_SAFE_INTEGER == 2147483647


\* ------------------------------------------------------------------------
\* Strings as sequences of characters
\* ------------------------------------------------------------------------

sep == "/"

RECURSIVE Concat(_)
Concat(ss) == IF ss = <<>> THEN <<>> ELSE Head(ss) \o Concat(Tail(ss))

\* String.prototype.slice(n) with 0-based n >= 0
slice(s, n) == IF n >= Len(s) THEN <<>> ELSE SubSeq(s, n + 1, Len(s))

\* s.split('/').filter(p => p.length)
RECURSIVE SplitAcc(_, _, _)
SplitAcc(s, cur, acc) ==
    IF s = <<>> THEN (IF cur = <<>> THEN acc ELSE Append(acc, cur))
    ELSE IF Head(s) = sep
         THEN SplitAcc(Tail(s), <<>>, IF cur = <<>> THEN acc ELSE Append(acc, cur))
         ELSE SplitAcc(Tail(s), Append(cur, Head(s)), acc)

Segments(s) == SplitAcc(s, <<>>, <<>>)

\* lexical normalisation of '.' and '..' segments (path.normalize)
RECURSIVE NormSegs(_, _)
NormSegs(segs, acc) ==
    IF segs = <<>> THEN acc
    ELSE IF Head(segs) = <<".">> THEN NormSegs(Tail(segs), acc)
    ELSE IF Head(segs) = <<".", ".">>
         THEN NormSegs(Tail(segs), IF acc = <<>> THEN acc ELSE SubSeq(acc, 1, Len(acc) - 1))
         ELSE NormSegs(Tail(segs), Append(acc, Head(segs)))

RECURSIVE JoinSegs(_)
JoinSegs(segs) == IF segs = <<>> THEN <<>> ELSE <<sep>> \o Head(segs) \o JoinSegs(Tail(segs))

\* absolute path text of a list of segments
AbsPath(segs) == IF segs = <<>> THEN <<sep>> ELSE JoinSegs(segs)

\* path.isAbsolute
isAbsolute(p) == Len(p) > 0 /\ p[1] = sep

\* path.resolve(base, rel) for an absolute base
resolve(base, rel) ==
    IF isAbsolute(rel) THEN AbsPath(NormSegs(Segments(rel), <<>>))
    ELSE AbsPath(NormSegs(Segments(base) \o Segments(rel), <<>>))

\* path.join(a, b) for an absolute a
join(a, b) == AbsPath(NormSegs(Segments(a) \o Segments(b), <<>>))

\* FileObject.getDepth: the number of separators in the path
RECURSIVE getDepth(_)
getDepth(p) == IF p = <<>> THEN 0 ELSE (IF Head(p) = sep THEN 1 ELSE 0) + getDepth(Tail(p))

\* this.fullPath.slice(this.fullPath.lastIndexOf(path.sep) + 1)
RECURSIVE BaseNameOf(_)
BaseNameOf(p) ==
    IF p = <<>> THEN <<>>
    ELSE IF p[Len(p)] = sep THEN <<>>
    ELSE Append(BaseNameOf(SubSeq(p, 1, Len(p) - 1)), p[Len(p)])

\* the path text made of the given one-character names
P(names) == AbsPath([i \in DOMAIN names |-> <<names[i]>>])

\* process.cwd() of the modelled process
cwd == <<sep>>

\* ------------------------------------------------------------------------
\* The filesystem the walkers probe (fs.lstat, fs.readdir, fs.readlink)
\* ------------------------------------------------------------------------

\* One-character names of the generated files.
Names == << <<"a">>, <<"b">>, <<"c">>, <<"f">>, <<"g">> >>

Dir(files) == [type |-> "directory", files |-> files, text |-> <<>>, fail |-> "none", size |-> 0]
File == [type |-> "file", files |-> <<>>, text |-> <<>>, fail |-> "none", size |-> 0]
Link(text) == [type |-> "link", files |-> <<>>, text |-> text, fail |-> "none", size |-> 0]
Failing(node, probe) == [node EXCEPT !.fail = probe]
\* a node of n bytes
Sized(node, n) == [node EXCEPT !.size = n]

\* /d holding n plain files
FlatDir(n) ==
    (P(<<"d">>) :> Dir(SubSeq(Names, 1, n)))
    @@ [p \in {join(P(<<"d">>), Names[i]) : i \in 1..n} |-> File]

\* /d { a, s { x }, e { } }: a sub-directory and an empty sub-directory
TreeFS ==
    (P(<<"d">>) :> Dir(<< <<"a">>, <<"s">>, <<"e">> >>))
    @@ (P(<<"d", "a">>) :> File)
    @@ (P(<<"d", "s">>) :> Dir(<< <<"x">> >>))
    @@ (P(<<"d", "s", "x">>) :> File)
    @@ (P(<<"d", "e">>) :> Dir(<<>>))

\* /d { a, s { x } }: no empty directory
SubDirFS ==
    (P(<<"d">>) :> Dir(<< <<"a">>, <<"s">> >>))
    @@ (P(<<"d", "a">>) :> File)
    @@ (P(<<"d", "s">>) :> Dir(<< <<"x">> >>))
    @@ (P(<<"d", "s", "x">>) :> File)

\* /d { a, b, u }: lstat of u fails (permission error)
BadChildFS ==
    (P(<<"d">>) :> Dir(<< <<"a">>, <<"b">>, <<"u">> >>))
    @@ (P(<<"d", "a">>) :> File)
    @@ (P(<<"d", "b">>) :> File)
    @@ (P(<<"d", "u">>) :> Failing(File, "lstat"))

\* /d { a, s }: s is a directory that cannot be listed
BadDirFS ==
    (P(<<"d">>) :> Dir(<< <<"a">>, <<"s">> >>))
    @@ (P(<<"d", "a">>) :> File)
    @@ (P(<<"d", "s">>) :> Failing(Dir(<< <<"x">> >>), "readdir"))
    @@ (P(<<"d", "s", "x">>) :> File)

\* /d { s, l -> /d/s }: s is a directory that cannot be listed
BadLinkFS ==
    (P(<<"d">>) :> Dir(<< <<"s">>, <<"l">> >>))
    @@ (P(<<"d", "s">>) :> Failing(Dir(<< <<"x">> >>), "readdir"))
    @@ (P(<<"d", "s", "x">>) :> File)
    @@ (P(<<"d", "l">>) :> Link(P(<<"d", "s">>)))

\* /d { l -> /d/l }: a self-referential link
SelfLinkFS ==
    (P(<<"d">>) :> Dir(<< <<"l">> >>))
    @@ (P(<<"d", "l">>) :> Link(P(<<"d", "l">>)))

\* /d { m -> /d/n, n -> /d/m }: mutually referential links
MutualLinkFS ==
    (P(<<"d">>) :> Dir(<< <<"m">>, <<"n">> >>))
    @@ (P(<<"d", "m">>) :> Link(P(<<"d", "n">>)))
    @@ (P(<<"d", "n">>) :> Link(P(<<"d", "m">>)))

\* /d { a, l -> /d }: a link to its own ancestor
AncestorLinkFS ==
    (P(<<"d">>) :> Dir(<< <<"a">>, <<"l">> >>))
    @@ (P(<<"d", "a">>) :> File)
    @@ (P(<<"d", "l">>) :> Link(P(<<"d">>)))

\* /d { s { x }, l -> /d/s }: a link with an absolute text to a directory
LinkDirFS ==
    (P(<<"d">>) :> Dir(<< <<"s">>, <<"l">> >>))
    @@ (P(<<"d", "s">>) :> Dir(<< <<"x">> >>))
    @@ (P(<<"d", "s", "x">>) :> File)
    @@ (P(<<"d", "l">>) :> Link(P(<<"d", "s">>)))

\* /d { s { x }, r -> s }: a link with a relative text to a directory
RelLinkFS ==
    (P(<<"d">>) :> Dir(<< <<"s">>, <<"r">> >>))
    @@ (P(<<"d", "s">>) :> Dir(<< <<"x">> >>))
    @@ (P(<<"d", "s", "x">>) :> File)
    @@ (P(<<"d", "r">>) :> Link(<<"s">>))

\* /r { a of 50 bytes, b of 5000 bytes }
SmallSize == 50
LargeSize == 5000
ScenarioFS ==
    (P(<<"r">>) :> Dir(<< <<"a">>, <<"b">> >>))
    @@ (P(<<"r", "a">>) :> Sized(File, SmallSize))
    @@ (P(<<"r", "b">>) :> Sized(File, LargeSize))

\* /p { d { a } } and /d { b }: the package lives in the directory /p
PackageFS ==
    (P(<<"p">>) :> Dir(<< <<"d">> >>))
    @@ (P(<<"p", "d">>) :> Dir(<< <<"a">> >>))
    @@ (P(<<"p", "d", "a">>) :> File)
    @@ (P(<<"d">>) :> Dir(<< <<"b">> >>))
    @@ (P(<<"d", "b">>) :> File)

FileSystems ==
    {FlatDir(n) : n \in 0..MaxFiles}
    \cup {TreeFS, SubDirFS, BadChildFS, BadDirFS, BadLinkFS, SelfLinkFS, MutualLinkFS,
          AncestorLinkFS, LinkDirFS, RelLinkFS, ScenarioFS, PackageFS}

\* The operating system's path lookup in filesystem fsys: every component
\* but the last is followed when it is a link, the last one only when
\* follow is set.  Yields <<"ok", path>> or <<"error">>.
RECURSIVE Lookup(_, _, _, _, _)
Lookup(fsys, done, rest, follow, hops) ==
    IF rest = <<>> THEN <<"ok", AbsPath(done)>>
    ELSE LET here == AbsPath(Append(done, Head(rest)))
             last == Len(rest) = 1
         IN IF here \notin DOMAIN fsys THEN <<"error">>
            ELSE IF fsys[here].type = "link" /\ (~last \/ follow)
                 THEN IF hops = 0 THEN <<"error">>
                      ELSE Lookup(fsys, <<>>,
                                  NormSegs((IF isAbsolute(fsys[here].text) THEN <<>> ELSE done)
                                           \o Segments(fsys[here].text) \o Tail(rest), <<>>),
                                  follow, hops - 1)
                 ELSE IF ~last /\ fsys[here].type # "directory" THEN <<"error">>
                 ELSE Lookup(fsys, Append(done, Head(rest)), Tail(rest), follow, hops)

RootNode == Dir(<<>>)

NodeAt(fsys, p) == IF p = <<sep>> THEN RootNode ELSE fsys[p]

\* the time, in ms, of the last access, of the last change and of the
\* creation of every node
FileTime == 100

\* fs.lstat / fs.lstatSync: [err, type, size] and the times
OsLstat(fsys, p) ==
    LET r == Lookup(fsys, <<>>, Segments(p), FALSE, MAXSYMLINKS)
    IN IF r[1] # "ok" \/ NodeAt(fsys, r[2]).fail = "lstat"
       THEN [err |-> TRUE, type |-> "none", size |-> 0,
             atimeMs |-> 0, ctimeMs |-> 0, birthtimeMs |-> 0]
       ELSE [err |-> FALSE, type |-> NodeAt(fsys, r[2]).type, size |-> NodeAt(fsys, r[2]).size,
             atimeMs |-> FileTime, ctimeMs |-> FileTime, birthtimeMs |-> FileTime]

\* fs.readdir / fs.readdirSync: [err, files]
OsReaddir(fsys, p) ==
    LET r == Lookup(fsys, <<>>, Segments(p), TRUE, MAXSYMLINKS)
    IN IF r[1] # "ok" \/ NodeAt(fsys, r[2]).type # "directory" \/ NodeAt(fsys, r[2]).fail = "readdir"
       THEN [err |-> TRUE, files |-> <<>>]
       ELSE [err |-> FALSE, files |-> NodeAt(fsys, r[2]).files]

\* fs.readlink / fs.readlinkSync: [err, text]
OsReadlink(fsys, p) ==
    LET r == Lookup(fsys, <<>>, Segments(p), FALSE, MAXSYMLINKS)
    IN IF r[1] # "ok" \/ NodeAt(fsys, r[2]).type # "link" \/ NodeAt(fsys, r[2]).fail = "readlink"
       THEN [err |-> TRUE, text |-> <<>>]
       ELSE [err |-> FALSE, text |-> NodeAt(fsys, r[2]).text]

\* ------------------------------------------------------------------------
\* Entries (FileObject, src/fs/FileObject.ts)
\*
\* An optional value is a sequence of length 0 (undefined) or 1.
\* stats is the type the wrapped fs.Stats answers to: "file", "directory",
\* "link", or "none" for the stats of a placeholder (every predicate false).
\* ------------------------------------------------------------------------

\* the details object of a constructor call with no property set
NoDetails ==
    [fullPath |-> <<>>, name |-> <<>>, children |-> <<>>, linkTargetName |-> <<>>,
     linkTarget |-> <<>>, parent |-> <<>>, error |-> FALSE]

\* { ...fileObject }: the properties of an Entry spread into a details object
DetailsOf(e) ==
    [fullPath |-> e.fullPath, name |-> <<e.name>>, children |-> e.children,
     linkTargetName |-> e.linkTargetName, linkTarget |-> e.linkTarget,
     parent |-> e.parent, error |-> e.error]

\* stats.isDirectory() and stats.isSymbolicLink(); "linkdir" is the type of
\* an Entry that is passed as the stats of another one and answers true to
\* both
StatsIsDirectory(stats) == stats \in {"directory", "linkdir"}
StatsIsSymbolicLink(stats) == stats \in {"link", "linkdir"}

isSymbolicLink(e) ==
    \/ e.linkTargetName # <<>> /\ Len(e.linkTargetName[1]) > 0
    \/ StatsIsSymbolicLink(e.stats)

RECURSIVE isDirectory(_)
isDirectory(e) ==
    \/ isSymbolicLink(e) /\ e.linkTarget # <<>> /\ isDirectory(e.linkTarget[1])
    \/ StatsIsDirectory(e.stats)

isFile(e) == e.stats = "file"

\* a placeholder reports false for every type predicate
doesExist(e) == isFile(e) \/ isDirectory(e) \/ isSymbolicLink(e)

StripSep(p) == IF Len(p) > 0 /\ p[Len(p)] = sep THEN SubSeq(p, 1, Len(p) - 1) ELSE p

\* the fs.Stats of fs.lstat(path, { bigint }) for a node of that type: the
\* type its predicates answer to, and whether its numbers are bigint
Stats(type, bigint) == [type |-> type, bigint |-> bigint]

\* FileObject.getStats(): the Entry keeps the type of its stats in stats and
\* the kind of their numbers in bigint
getStats(e) == Stats(e.stats, e.bigint)

RECURSIVE FileObject(_, _)
RECURSIVE makeChildLink(_, _, _)

\* new FileObject(stats, details)
FileObject(stats, details) ==
    LET fullPath == StripSep(details.fullPath)
        name == IF details.name # <<>> /\ details.name[1] # <<>>
                THEN details.name[1] ELSE BaseNameOf(fullPath)
        own == IF StatsIsDirectory(stats.type) THEN details.children ELSE <<>>
        mirror == /\ details.linkTarget # <<>>
                  /\ details.linkTargetName # <<>>
                  /\ isDirectory(details.linkTarget[1])
                  /\ details.linkTarget[1].children # <<>>
        target == details.linkTarget[1].children[1]
        ltnl == Len(details.linkTargetName[1])
    IN [stats |-> stats.type,
        bigint |-> stats.bigint,
        fullPath |-> fullPath,
        name |-> name,
        children |-> IF mirror
                     THEN << [i \in DOMAIN target |-> makeChildLink(target[i], fullPath, ltnl)] >>
                     ELSE own,
        linkTargetName |-> details.linkTargetName,
        linkTarget |-> details.linkTarget,
        parent |-> details.parent,
        error |-> details.error]

\* makeChildLink(child, parent) of the constructor whose linkTargetName has
\* ltnl characters; parentPath is parent.fullPath
makeChildLink(child, parentPath, ltnl) ==
    LET linkFullPath == join(parentPath, slice(child.fullPath, ltnl))
        kids == IF child.children # <<>>
                THEN << [i \in DOMAIN child.children[1] |->
                            makeChildLink(child.children[1][i], child.fullPath, ltnl)] >>
                ELSE <<>>
    IN FileObject(getStats(child),
                  [NoDetails EXCEPT !.children = kids,
                                    !.linkTarget = <<child>>,
                                    !.linkTargetName = <<child.fullPath>>,
                                    !.fullPath = linkFullPath,
                                    !.parent = <<parentPath>>])

\* an Entry passed where an fs.Stats is expected, as statPathlike does with
\* the Entry of a child: the type its predicates answer to
StatsOf(e) ==
    IF isSymbolicLink(e) /\ isDirectory(e) THEN "linkdir"
    ELSE IF isDirectory(e) THEN "directory"
    ELSE IF isSymbolicLink(e) THEN "link"
    ELSE IF isFile(e) THEN "file"
    ELSE "none"

\* FileSystem.createPlaceholder(fullPath, error)
createPlaceholder(fullPath, error) ==
    FileObject(Stats("none", FALSE), [NoDetails EXCEPT !.fullPath = fullPath, !.error = error])

\* FileSystem.createBigIntPlaceholder(fullPath, error)
createBigIntPlaceholder(fullPath, error) ==
    FileObject(Stats("none", TRUE), [NoDetails EXCEPT !.fullPath = fullPath, !.error = error])

\* this.parentPath = path.resolve(this.fullPath, '..')
parentPath(e) == resolve(e.fullPath, <<".", ".">>)

\* ------------------------------------------------------------------------
\* DiskFileSystem.lstatSync (src/fs/FileSystem.ts)
\*
\* A call that raises an exception yields [ok |-> FALSE]; o is the
\* StatOptions: followLinks, recursive, throwErrors, and wantChildren with
\* the values "undefined", "true" and "false".
\* ------------------------------------------------------------------------

Thrown == [ok |-> FALSE]
Returned(v) == [ok |-> TRUE, val |-> v]

RECURSIVE lstatSync(_, _, _, _)
RECURSIVE lstatSyncPopulate(_, _, _, _)
RECURSIVE lstatSyncChildren(_, _, _, _, _, _)

\* a nested call this.lstatSync(...): the call that overflows the stack
\* raises instead of running
lstatSyncCall(fsys, p, o, depth) ==
    IF depth > StackLimit THEN Thrown ELSE Returned(lstatSync(fsys, p, o, depth))

\* the body of the for loop of populateAndReturn for files[i .. ]
lstatSyncChildren(fsys, parent, o, depth, files, acc) ==
    IF files = <<>> THEN Returned(acc)
    ELSE
    LET name == Head(files)
        fullPath == resolve(parent.fullPath, name)
        st == OsLstat(fsys, fullPath)
        rl == OsReadlink(fsys, fullPath)
        base == [NoDetails EXCEPT !.fullPath = fullPath, !.name = <<name>>,
                                  !.parent = <<parent.fullPath>>]
        lt == lstatSyncCall(fsys, rl.text,
                            IF o.followLinks THEN o
                            ELSE [o EXCEPT !.recursive = FALSE, !.wantChildren = "false"],
                            depth + 1)
        sub == lstatSyncCall(fsys, fullPath, o, depth + 1)
    IN IF st.err THEN Thrown
       ELSE IF st.type = "link"
            THEN IF rl.err \/ ~lt.ok THEN Thrown
                 ELSE lstatSyncChildren(fsys, parent, o, depth, Tail(files),
                        Append(acc, FileObject(Stats(st.type, o.bigint),
                            [base EXCEPT !.linkTargetName = <<rl.text>>,
                                         !.linkTarget = <<lt.val>>])))
       ELSE IF st.type = "directory" /\ o.recursive
            THEN IF ~sub.ok THEN Thrown
                 ELSE lstatSyncChildren(fsys, parent, o, depth, Tail(files), Append(acc, sub.val))
       ELSE lstatSyncChildren(fsys, parent, o, depth, Tail(files),
                              Append(acc, FileObject(Stats(st.type, o.bigint), base)))

\* populateAndReturn(parent) of lstatSync
lstatSyncPopulate(fsys, parent, o, depth) ==
    LET rd == OsReaddir(fsys, parent.fullPath)
        kids == lstatSyncChildren(fsys, parent, o, depth, rd.files, <<>>)
    IN IF rd.err \/ ~kids.ok THEN Thrown
       ELSE Returned(FileObject(getStats(parent),
                                [DetailsOf(parent) EXCEPT !.children = <<kids.val>>]))

\* lstatSync(fullPath, options): every exception raised inside the try
\* block is caught and answered with a placeholder
lstatSync(fsys, pathLike, o, depth) ==
    LET fullPath == IF isAbsolute(pathLike) THEN pathLike ELSE resolve(cwd, pathLike)
        placeholder == IF o.bigint THEN createBigIntPlaceholder(fullPath, TRUE)
                       ELSE createPlaceholder(fullPath, TRUE)
        st == OsLstat(fsys, fullPath)
        rl == OsReadlink(fsys, fullPath)
        linkTargetName == IF st.type = "link" THEN <<rl.text>> ELSE <<>>
        details == [NoDetails EXCEPT !.fullPath = fullPath, !.linkTargetName = linkTargetName]
        stats == Stats(st.type, o.bigint)
        result == FileObject(stats, details)
        linkTargetPath == IF isAbsolute(rl.text) THEN rl.text
                          ELSE resolve(parentPath(result), rl.text)
        lt == lstatSyncCall(fsys, linkTargetPath, o, depth + 1)
        ltPopulated == lstatSyncPopulate(fsys, lt.val, o, depth)
        populated == lstatSyncPopulate(fsys, result, o, depth)
    IN IF st.err THEN placeholder
       ELSE IF st.type = "link" /\ rl.err THEN placeholder
       ELSE IF isSymbolicLink(result) /\ linkTargetName # <<>> /\ linkTargetName[1] # <<>>
            THEN IF ~lt.ok THEN placeholder
                 ELSE IF isDirectory(lt.val) /\ o.followLinks
                      THEN IF ~ltPopulated.ok THEN placeholder
                           ELSE FileObject(stats, [details EXCEPT !.linkTarget = <<ltPopulated.val>>])
                 ELSE FileObject(stats, [details EXCEPT !.linkTarget = <<lt.val>>])
       ELSE IF isDirectory(result)
            THEN IF o.wantChildren = "false" THEN result
                 ELSE IF ~populated.ok THEN placeholder
                 ELSE populated.val
       ELSE FileObject(stats, details)


\* ------------------------------------------------------------------------
\* State
\* ------------------------------------------------------------------------

VARIABLES
    fsys,            \* the filesystem (it does not change during a walk)
    call,            \* the entry point that was called, "none" before the call
    shape,           \* fsq: the shape of the call (see CallFsq), "none" otherwise
    o,               \* the options or the query of the call
    expr,            \* the paths or path expressions of the call
    maxConcurrency,  \* FileWorkerImpl.maxConcurrency
    taskList,        \* FileWorkerImpl.taskList: the tasks that wait
    activeTasks,     \* FileWorkerImpl.activeTasks
    immediates,      \* the task callbacks handed to setImmediate, in order
    probes,          \* the filesystem operations started and not yet answered
    frames,          \* the closures of the directory listings in progress
    started,         \* the expressions whose walk was started
    delivered,       \* the invocations of the caller's callback, in order
    returned,        \* the value lstatSync returned, when it has
    thrown,          \* the call raised an exception to its caller
    crashed,         \* an exception left a callback of the event loop uncaught
    searcher,        \* the FileContentSearcher that was constructed, if any
    scanned,         \* the results its next() returned since the scan began, in order
    matching         \* the call of matchSimpleCriteria or matchCriteria, if any

\* the state of the walkers and of the query entry points: the filesystem,
\* the exception of the call, and the rest
callVars == <<call, shape, o, expr, maxConcurrency, taskList, activeTasks, immediates,
              probes, frames, started, delivered, returned, crashed>>
walkerVars == <<fsys, thrown, callVars>>

vars == <<walkerVars, searcher, scanned, matching>>

Tri == {"undefined", "true", "false"}

\* StatOptions of lstat / lstatSync
\* StatOptions of lstat / lstatSync, and the properties of a query that the
\* walkers read: minSize (0: not set) and buffer are properties of queries
Options ==
    [followLinks : BOOLEAN, recursive : BOOLEAN, wantChildren : Tri, throwErrors : BOOLEAN,
     bigint : BOOLEAN, minSize : {0}, buffer : {FALSE}]

\* the queries of statPathlike and fsq: wantChildren is no property of them
Queries == {q \in Options : q.wantChildren = "undefined" /\ ~q.bigint}

\* ------------------------------------------------------------------------
\* Continuations, tasks and probes
\*
\* A continuation is the callback a stat call was given:
\*   "root"    the caller's callback;
\*   "child"   lstatCallback: the callback of populateAndReturn for the child
\*             at path, which joins the listing of frame;
\*   "link"    lstatCallback: the callback that wraps the resolved target into
\*             the link at path whose target name is ltn, then calls next;
\*   "schild"  statPathlike: the callback for the child at path of frame;
\*   "srec"    statPathlike: the callback of the second stat of a child
\*             directory of frame;
\*   "slink"   statPathlike: the callback that wraps the followed target into
\*             the link at path whose link text is ltn, then calls next;
\*   "fsq"     the callback fsqStreamed gives readPathlike for expression
\*             number of;
\*   "buf"     the callback fsqBuffered gives readPathlike for expression
\*             number of;
\*   "collect" readPathlike, buffered: the callback that pushes the Entry of
\*             a literal path into the collection of the call;
\*   "glob"    readPathlike: the callback of the walk of the expression left
\*             of a globstar, ltn being the expression right of it and next
\*             the callback of the readPathlike call that started the walk;
\*   "wild"    readPathlike: the same for a segment with other wildcards, ltn
\*             being the expression from that segment on.
\* A frame is the closure of one directory listing, named by the path of
\* the directory and the callback of the stat call that lists it.
\* ------------------------------------------------------------------------

Cont(k, of, frame, path, ltn, next) ==
    [k |-> k, of |-> of, frame |-> frame, path |-> path, ltn |-> ltn, next |-> next]

Frame(path, cont) == [path |-> path, cont |-> cont]

RootCont == Cont("root", 1, <<>>, <<>>, <<>>, <<>>)
ChildCont(frame, path) == Cont("child", 0, <<frame>>, path, <<>>, <<>>)
LinkCont(path, ltn, next) == Cont("link", 0, <<>>, path, ltn, <<next>>)
SChildCont(frame, path) == Cont("schild", 0, <<frame>>, path, <<>>, <<>>)
SRecCont(frame) == Cont("srec", 0, <<frame>>, <<>>, <<>>, <<>>)
SLinkCont(path, ltn, next) == Cont("slink", 0, <<>>, path, ltn, <<next>>)
FsqCont(i) == Cont("fsq", i, <<>>, <<>>, <<>>, <<>>)
BufCont(i) == Cont("buf", i, <<>>, <<>>, <<>>, <<>>)
CollectCont(i) == Cont("collect", i, <<>>, <<>>, <<>>, <<>>)
GlobCont(rightExpr, next) == Cont("glob", 0, <<>>, <<>>, rightExpr, <<next>>)
WildCont(rightExpr, next) == Cont("wild", 0, <<>>, <<>>, rightExpr, <<next>>)

\* the callbacks a walk of statPathlike or lstatCallback ends in
WalkEnds == {"root", "fsq", "buf", "collect", "glob", "wild"}

\* the number of link targets being resolved on the way to this callback
RECURSIVE LinkDepth(_)
LinkDepth(cont) ==
    IF cont.k \in WalkEnds THEN 0
    ELSE IF cont.k \in {"link", "slink"} THEN 1 + LinkDepth(cont.next[1])
    ELSE LinkDepth(cont.frame[1].cont)

\* the part of the state the handlers change
Machine ==
    [maxConcurrency |-> maxConcurrency, taskList |-> taskList, activeTasks |-> activeTasks,
     immediates |-> immediates, probes |-> probes, frames |-> frames, started |-> started,
     delivered |-> delivered, thrown |-> thrown, crashed |-> crashed]

Becomes(M) ==
    /\ maxConcurrency' = M.maxConcurrency
    /\ taskList' = M.taskList
    /\ activeTasks' = M.activeTasks
    /\ immediates' = M.immediates
    /\ probes' = M.probes
    /\ frames' = M.frames
    /\ started' = M.started
    /\ delivered' = M.delivered
    /\ thrown' = M.thrown
    /\ crashed' = M.crashed

\* a task of the worker: the closure handed to enqueue
Task(kind, path, wc, cont, file) ==
    [kind |-> kind, path |-> path, wc |-> wc, cont |-> cont, file |-> file]

\* a filesystem operation in flight and the closure of its callback
Probe(op, walker, path, wc, cont, entry) ==
    [op |-> op, walker |-> walker, path |-> path, wc |-> wc, cont |-> cont, entry |-> entry]

\* an exception that no try block catches ends the process
Uncaught(M) == [M EXCEPT !.crashed = TRUE]

\* ------------------------------------------------------------------------
\* FileWorkerImpl (src/fs/FileWorker.ts)
\* ------------------------------------------------------------------------

\* runTasks(): start waiting tasks while fewer than maxConcurrency are active
RECURSIVE runTasks(_)
runTasks(M) ==
    IF Len(M.activeTasks) < M.maxConcurrency /\ M.taskList # <<>>
    THEN LET task == Head(M.taskList)
             M1 == [M EXCEPT !.taskList = Tail(@),
                             !.activeTasks = Append(@, task),
                             !.immediates = Append(@, task)]
         IN IF Len(M1.activeTasks) >= M1.maxConcurrency THEN M1 ELSE runTasks(M1)
    ELSE M

\* enqueue(task)
enqueue(M, task) ==
    runTasks([M EXCEPT !.taskList = Append(@, task)])

\* this.activeTasks.splice(this.activeTasks.findIndex(t => t === task), 1)
RemoveTask(tasks, task) ==
    LET idx == {i \in DOMAIN tasks : tasks[i] = task}
        at == IF idx = {} THEN Len(tasks) ELSE CHOOSE i \in idx : \A j \in idx : i <= j
    IN [i \in 1..(Len(tasks) - 1) |-> IF i < at THEN tasks[i] ELSE tasks[i + 1]]

\* the rest of taskCallback once task.run() has settled
taskCompleted(M, task) ==
    LET M1 == [M EXCEPT !.activeTasks = RemoveTask(@, task)]
    IN IF Len(M1.activeTasks) = 0 THEN M1 ELSE runTasks(M1)

\* setMaxConcurrency(concurrency); 0 stands for an argument left undefined,
\* which takes the default value of the parameter
setMaxConcurrency(M, concurrency) ==
    LET c == IF concurrency = 0 THEN MAX_SAFE_INTEGER ELSE concurrency
    IN IF c > 0 THEN [M EXCEPT !.maxConcurrency = c] ELSE M

\* a filesystem operation is handed to the operating system
StartProbe(M, probe) ==
    [M EXCEPT !.probes = @ \cup {probe}]

\* ------------------------------------------------------------------------
\* Patterns (RegExUtil.createFileRegex, src/util/RegExUtil.ts).  A regular
\* expression is the sequence of its tokens: "\\." a literal dot, "." any
\* character, ".*" any characters, "$" the end of the input, and any other
\* character itself.  The expressions of this model hold no range brackets.
\* ------------------------------------------------------------------------

\* createFileRegex(input, { endsWith: true })
createFileRegex(input) ==
    [i \in DOMAIN input |->
        IF input[i] = "." THEN "\\."
        ELSE IF input[i] = "?" THEN "."
        ELSE IF input[i] = "*" THEN ".*"
        ELSE input[i]]
    \o <<"$">>

\* the tokens of re match a prefix of s, "$" only the end of s
RECURSIVE MatchHere(_, _)
MatchHere(re, s) ==
    IF re = <<>> THEN TRUE
    ELSE IF Head(re) = "$" THEN s = <<>> /\ MatchHere(Tail(re), s)
    ELSE IF Head(re) = ".*" THEN \E k \in 0..Len(s) : MatchHere(Tail(re), slice(s, k))
    ELSE IF s = <<>> THEN FALSE
    ELSE IF Head(re) = "." THEN MatchHere(Tail(re), Tail(s))
    ELSE IF Head(re) = "\\." THEN Head(s) = "." /\ MatchHere(Tail(re), Tail(s))
    ELSE Head(s) = Head(re) /\ MatchHere(Tail(re), Tail(s))

\* re.test(s): the expression matches somewhere in s
RegExpTest(re, s) == \E k \in 0..Len(s) : MatchHere(re, slice(s, k))

\* ------------------------------------------------------------------------
\* Criteria (FileObject.matchSimpleCriteria, matchCriteria).  The criteria
\* of this model are minSize, the depths createCompleteRPL fills in, and
\* the endsWith pattern readPathlike adds.
\* ------------------------------------------------------------------------

\* this.size: the size of the stats the Entry wraps, which for a child
\* synthesized under a link are the stats of the child of the target
RECURSIVE SizeOf(_)
SizeOf(file) ==
    IF file.linkTarget # <<>> /\ file.stats # "link" THEN SizeOf(file.linkTarget[1])
    ELSE OsLstat(fsys, file.fullPath).size

\* this.atimeMs, this.ctimeMs, this.birthtimeMs
atimeMs(file) == OsLstat(fsys, file.fullPath).atimeMs
ctimeMs(file) == OsLstat(fsys, file.fullPath).ctimeMs
birthtimeMs(file) == OsLstat(fsys, file.fullPath).birthtimeMs

\* this.typeName, for the types of the model
typeName(file) ==
    IF isDirectory(file) THEN "directory"
    ELSE IF isFile(file) THEN "file"
    ELSE IF isSymbolicLink(file) THEN "link"
    ELSE "unknown"

\* A query that sets no criterion.  A number that is 0 is a criterion that
\* is not set, as is a sequence that is empty; endsWith, startsWith and
\* contains hold [type |-> "string" or "RegExp", source |-> ...] when set,
\* isType holds [list |-> it is an array, types |-> ...]; onContains tells
\* that the query has the function, bigint is "undefined" in a query that
\* was not completed.
NoCriteria ==
    [minSize |-> 0, maxSize |-> 0, minDepth |-> 0, maxDepth |-> 0,
     endsWith |-> <<>>, startsWith |-> <<>>,
     maxAccessTime |-> 0, minAccessTime |-> 0, maxChangeTime |-> 0, minChangeTime |-> 0,
     maxCreateTime |-> 0, minCreateTime |-> 0,
     isType |-> <<>>, contains |-> <<>>, minMatches |-> 0, maxMatches |-> 0,
     onContains |-> FALSE, bigint |-> "false", throwErrors |-> TRUE]

\* the criteria of the query q with the pattern endsWith (<<>>: none)
Criteria(q, endsWith) ==
    [NoCriteria EXCEPT
        !.minSize = q.minSize,
        !.maxDepth = MAX_SAFE_INTEGER,
        !.throwErrors = q.throwErrors,
        !.endsWith = IF endsWith = <<>> THEN <<>>
                     ELSE <<[type |-> "RegExp", source |-> endsWith[1]]>>]

\* String.prototype.endsWith and String.prototype.startsWith
endsWith(s, searchString) ==
    /\ Len(searchString) <= Len(s)
    /\ SubSeq(s, Len(s) - Len(searchString) + 1, Len(s)) = searchString
startsWith(s, searchString) ==
    /\ Len(searchString) <= Len(s)
    /\ SubSeq(s, 1, Len(searchString)) = searchString

\* the name does not have the suffix or prefix the criterion c asks for
NameFails(c, name, literally(_, _)) ==
    /\ c # <<>>
    /\ IF c[1].type = "string" THEN ~literally(name, c[1].source)
       ELSE ~RegExpTest(c[1].source, name)

\* the conditions of matchSimpleCriteria in the order of its if chain, each
\* with the criterion its reason begins with
SimpleChecks(criteria, file) ==
    << [reason |-> "minSize",
        fails |-> isFile(file) /\ criteria.minSize # 0 /\ SizeOf(file) < criteria.minSize],
       [reason |-> "maxSize",
        fails |-> isFile(file) /\ criteria.maxSize # 0 /\ SizeOf(file) > criteria.maxSize],
       [reason |-> "minDepth",
        fails |-> criteria.minDepth # 0 /\ getDepth(file.fullPath) < criteria.minDepth],
       [reason |-> "maxDepth",
        fails |-> criteria.maxDepth # 0 /\ getDepth(file.fullPath) > criteria.maxDepth],
       [reason |-> "endsWith", fails |-> NameFails(criteria.endsWith, file.name, endsWith)],
       [reason |-> "startsWith", fails |-> NameFails(criteria.startsWith, file.name, startsWith)] >>

\* the conditions of matchCriteria that follow, in the order of its if chain
AdvancedChecks(criteria, file) ==
    << [reason |-> "maxAccessTime",
        fails |-> criteria.maxAccessTime # 0 /\ atimeMs(file) > criteria.maxAccessTime],
       [reason |-> "minAccessTime",
        fails |-> criteria.minAccessTime # 0 /\ atimeMs(file) < criteria.minAccessTime],
       [reason |-> "maxChangeTime",
        fails |-> criteria.maxChangeTime # 0 /\ ctimeMs(file) > criteria.maxChangeTime],
       [reason |-> "minChangeTime",
        fails |-> criteria.minChangeTime # 0 /\ ctimeMs(file) < criteria.minChangeTime],
       [reason |-> "maxCreateTime",
        fails |-> criteria.maxCreateTime # 0 /\ birthtimeMs(file) > criteria.maxCreateTime],
       [reason |-> "minCreateTime",
        fails |-> criteria.minCreateTime # 0 /\ birthtimeMs(file) < criteria.minCreateTime],
       [reason |-> "isType",
        fails |-> /\ criteria.isType # <<>>
                  /\ criteria.isType[1].list
                  /\ typeName(file) \notin criteria.isType[1].types] >>

\* an if chain that reports the last condition that fails
lastFailing(checks) ==
    LET failing == {i \in DOMAIN checks : checks[i].fails}
    IN IF failing = {} THEN <<>>
       ELSE <<checks[CHOOSE i \in failing : \A j \in failing : j <= i].reason>>

\* if (...) return callback(false, file, reason); else if ...: the reason
\* of the first condition of the chain that fails, <<>> when none does
firstFailing(checks) ==
    LET failing == {i \in DOMAIN checks : checks[i].fails}
    IN IF failing = {} THEN <<>>
       ELSE <<checks[CHOOSE i \in failing : \A j \in failing : i <= j].reason>>

\* matchSimpleCriteria(criteria, callback): the invocations of the callback
matchSimpleCriteriaCalls(criteria, file) ==
    LET failed == firstFailing(SimpleChecks(criteria, file))
    IN IF failed # <<>> THEN <<[success |-> FALSE, reason |-> failed[1]]>>
       ELSE <<[success |-> TRUE, reason |-> ""]>>

\* matchSimpleCriteria(criteria, callback): the value given to the callback
matchSimpleCriteria(criteria, file) == matchSimpleCriteriaCalls(criteria, file)[1].success

\* matchCriteria(criteria, callback) of a query without a content pattern:
\* the value given to the callback
matchCriteria(criteria, file) ==
    /\ matchSimpleCriteria(criteria, file)
    /\ firstFailing(AdvancedChecks(criteria, file)) = <<>>

\* ------------------------------------------------------------------------
\* The callbacks of the walkers, called with (err, file)
\* ------------------------------------------------------------------------

\* the listing counted as whole as soon as one child has answered
listingDoneAtFirstChild(children, n) == Len(children) >= 1

\* the listing is whole: children.length === files.length
listingDone(children, n) == Len(children) = n

RECURSIVE Invoke(_, _, _, _, _)
Invoke(M, q, cont, err, file) ==
    CASE cont.k = "root" ->
        [M EXCEPT !.delivered = Append(@, [err |-> err, file |-> file, of |-> cont.of])]
    [] cont.k = "fsq" ->
        \* file?.matchCriteria(query, (didMatch, file) => { if (didMatch) callback(err, file) })
        IF file # <<>> /\ matchCriteria(Criteria(q, <<>>), file[1])
        THEN [M EXCEPT !.delivered = Append(@, [err |-> err, file |-> file, of |-> cont.of])]
        ELSE M
    [] cont.k = "buf" ->
        \* the same on the collection callbackBuffered hands over, which has
        \* no method matchCriteria: a TypeError
        [M EXCEPT !.thrown = TRUE]
    [] cont.k = "collect" ->
        \* (err, file) => { if (file) collection.push(file) }
        M
    [] cont.k \in {"glob", "wild"} ->
        \* (err, file, criteria) => { query.worker.enqueue(() => { file?.matchSimpleCriteria ... }) }
        enqueue(M, Task(IF cont.k = "glob" THEN "g.match" ELSE "w.match",
                        <<>>, "undefined", cont, file))
    [] cont.k = "link" ->
        LET linkTarget == IF file # <<>> THEN file[1] ELSE createPlaceholder(cont.ltn, err)
            linkResult == FileObject(Stats("link", q.bigint),
                              [NoDetails EXCEPT !.fullPath = cont.path,
                                                !.linkTargetName = <<cont.ltn>>,
                                                !.linkTarget = <<linkTarget>>])
        IN Invoke(M, q, cont.next[1], err, <<linkResult>>)
    [] cont.k = "child" ->
        LET fr == M.frames[cont.frame[1]]
            child == IF file # <<>> THEN file[1]
                     ELSE IF q.bigint THEN createBigIntPlaceholder(cont.path, err)
                     ELSE createPlaceholder(cont.path, err)
            children == Append(fr.children, child)
            M1 == [M EXCEPT !.frames[cont.frame[1]].children = children]
            whole == FileObject(getStats(fr.parent),
                                [DetailsOf(fr.parent) EXCEPT !.children = <<children>>])
        IN IF listingDone(children, fr.n) THEN Invoke(M1, q, fr.cont, FALSE, <<whole>>) ELSE M1
    [] cont.k = "slink" ->
        Invoke(M, q, cont.next[1], err,
               << FileObject(Stats("link", q.bigint), [NoDetails EXCEPT !.fullPath = cont.path,
                                                       !.linkTargetName = <<cont.ltn>>,
                                                       !.linkTarget = file]) >>)
    [] cont.k = "schild" ->
        LET fr == M.frames[cont.frame[1]]
            newChild == FileObject(Stats(StatsOf(file[1]), file[1].bigint),
                                   [NoDetails EXCEPT !.parent = <<fr.parent.fullPath>>,
                                                     !.name = <<BaseNameOf(cont.path)>>,
                                                     !.fullPath = cont.path])
        IN IF err /\ q.throwErrors THEN [M EXCEPT !.thrown = TRUE]
           ELSE IF file = <<>> THEN Invoke(M, q, SRecCont(cont.frame[1]), FALSE, <<>>)
           ELSE IF q.recursive /\ isDirectory(newChild)
                THEN enqueue(M, Task("s.stat", cont.path, "undefined", SRecCont(cont.frame[1]), <<>>))
           ELSE Invoke(M, q, SRecCont(cont.frame[1]), FALSE, <<newChild>>)
    [] OTHER ->
        \* addChild(child) of statPathlike
        LET fr == M.frames[cont.frame[1]]
            children == IF file # <<>> THEN Append(fr.children, file[1]) ELSE fr.children
            M1 == [M EXCEPT !.frames[cont.frame[1]].children = children,
                            !.frames[cont.frame[1]].n = @ - 1]
            finalDir == FileObject(getStats(fr.parent),
                                   [DetailsOf(fr.parent) EXCEPT !.children = <<children>>])
        IN IF fr.n - 1 = 0 THEN Invoke(M1, q, fr.cont, FALSE, <<finalDir>>) ELSE M1

\* ------------------------------------------------------------------------
\* DiskFileSystem.lstatCallback (src/fs/FileSystem.ts); the options of a
\* nested call differ from those of the first call in wantChildren only
\* ------------------------------------------------------------------------

lstatCallback(M, pathLike, wc, cont) ==
    LET fullPath == IF isAbsolute(pathLike) THEN pathLike ELSE resolve(cwd, pathLike)
    IN enqueue(M, Task("lstat", fullPath, wc, cont, <<>>))

\* the callback of fs.lstat
lstatAnswered(M, q, p, fs) ==
    LET st == OsLstat(fs, p.path)
        resultObject == FileObject(Stats(st.type, q.bigint), [NoDetails EXCEPT !.fullPath = p.path])
    IN IF st.err THEN Uncaught(M)
       ELSE IF st.type = "link" THEN enqueue(M, Task("readlink", p.path, p.wc, p.cont, <<>>))
       ELSE IF st.type = "directory" /\ (p.wc = "true" \/ q.recursive)
            THEN StartProbe(M, Probe("readdir", "lstatCallback", p.path, p.wc, p.cont,
                                     <<resultObject>>))
       ELSE Invoke(M, q, p.cont, FALSE, <<resultObject>>)

\* the enqueue calls of the for loop of populateAndReturn
RECURSIVE enqueueChildren(_, _, _, _, _)
enqueueChildren(M, frame, dir, wc, files) ==
    IF files = <<>> THEN M
    ELSE LET childPath == join(dir, Head(files))
         IN enqueueChildren(
                enqueue(M, Task("child", childPath, wc, ChildCont(frame, childPath), <<>>)),
                frame, dir, wc, Tail(files))

\* the callback of fs.readdir in populateAndReturn
readdirAnswered(M, q, p, fs) ==
    LET rd == OsReaddir(fs, p.path)
        frame == Frame(p.path, p.cont)
        M1 == [M EXCEPT !.frames = (frame :> [parent |-> p.entry[1], n |-> Len(rd.files),
                                              children |-> <<>>, cont |-> p.cont]) @@ @]
    IN IF rd.err THEN Invoke(M, q, p.cont, TRUE, <<>>)
       ELSE enqueueChildren(M1, frame, p.path, p.wc, rd.files)

\* the callback of fs.readlink
readlinkAnswered(M, q, p, fs) ==
    LET rl == OsReadlink(fs, p.path)
        linkTargetName == IF isAbsolute(rl.text) THEN rl.text ELSE resolve(p.path, rl.text)
    IN IF rl.err THEN Uncaught(M)
       ELSE lstatCallback(M, linkTargetName, IF q.followLinks THEN "true" ELSE "false",
                          LinkCont(p.path, linkTargetName, p.cont))

\* ------------------------------------------------------------------------
\* FileUtilImpl.statPathlike (src/util/FileUtil.ts).  Its constructor calls
\* pass no fileSystem property; the Entry they build is the one of the
\* constructor without the test of that property.
\* ------------------------------------------------------------------------

\* statPathlike(pathLike, callback, query): createCompleteRPL hands the
\* worker the limit of the query, which the first call has made the limit
\* of the worker already
statPathlike(M, pathLike, cont) ==
    enqueue(setMaxConcurrency(M, M.maxConcurrency), Task("s.lstat", pathLike, "undefined", cont, <<>>))

\* the callback of fs.lstat
sLstatAnswered(M, q, p, fs) ==
    LET st == OsLstat(fs, p.path)
        dir == FileObject(Stats(st.type, q.bigint), [NoDetails EXCEPT !.fullPath = p.path])
    IN IF st.err THEN Uncaught(M)
       ELSE IF st.type = "link"
            THEN enqueue(M, Task("s.readlink", p.path, "undefined", p.cont, <<>>))
       ELSE IF st.type = "directory"
            THEN StartProbe(M, Probe("readdir", "statPathlike", p.path, "undefined", p.cont, <<dir>>))
       ELSE enqueue(M, Task("s.file", p.path, "undefined", p.cont, <<>>))

\* the callback of fs.readlink
sReadlinkAnswered(M, q, p, fs) ==
    LET rl == OsReadlink(fs, p.path)
        linkObj == FileObject(Stats("link", q.bigint), [NoDetails EXCEPT !.fullPath = p.path,
                                                        !.linkTargetName = <<rl.text>>])
        linkTargetResolved == resolve(parentPath(linkObj), rl.text)
    IN IF rl.err THEN Uncaught(M)
       ELSE IF q.followLinks
            THEN enqueue(M, Task("s.stat", linkTargetResolved, "undefined",
                                 SLinkCont(p.path, rl.text, p.cont), <<>>))
       ELSE enqueue(M, Task("s.callback", p.path, "undefined", p.cont, <<linkObj>>))

\* the enqueue calls of the for loop over the names of a directory
RECURSIVE sEnqueueChildren(_, _, _, _)
sEnqueueChildren(M, frame, dir, files) ==
    IF files = <<>> THEN M
    ELSE LET childFullPath == join(dir, Head(files))
         IN sEnqueueChildren(
                enqueue(M, Task("s.stat", childFullPath, "undefined",
                                SChildCont(frame, childFullPath), <<>>)),
                frame, dir, Tail(files))

\* the callback of fs.readdir
sReaddirAnswered(M, q, p, fs) ==
    LET rd == OsReaddir(fs, p.path)
        frame == Frame(p.path, p.cont)
        M1 == [M EXCEPT !.frames = (frame :> [parent |-> p.entry[1], n |-> Len(rd.files),
                                              children |-> <<>>, cont |-> p.cont]) @@ @]
    IN IF rd.err THEN Uncaught(M)
       ELSE sEnqueueChildren(M1, frame, p.path, rd.files)

\* ------------------------------------------------------------------------
\* FileUtilImpl.readPathlike, fsq and fsqAsync (src/util/FileUtil.ts)
\* ------------------------------------------------------------------------

\* getProjectRoot(): the directory of the package, /p in a filesystem that
\* has it; in any other the package lies in the working directory and the
\* search ends with the empty string
packageRoot == IF P(<<"p">>) \in DOMAIN fsys THEN P(<<"p">>) ELSE <<>>

Wildcards == {"*", "?", "[", "]"}

\* reHasWildcards.test(s)
HasWildcards(s) == \E i \in DOMAIN s : s[i] \in Wildcards

\* s.indexOf('**') > -1
HasGlobstar(s) == \E i \in 1..(Len(s) - 1) : s[i] = "*" /\ s[i + 1] = "*"

\* parts.slice(from).join(path.sep), from counted from 0
JoinParts(parts, from) ==
    IF from >= Len(parts) THEN <<>>
    ELSE Tail(JoinSegs(SubSeq(parts, from + 1, Len(parts))))

\* the walk that ends in this callback belongs to a readPathlike call made
\* for a globstar, whose query has recursive set
RECURSIVE UnderGlobstar(_)
UnderGlobstar(cont) ==
    IF cont.k = "glob" THEN TRUE
    ELSE IF cont.k \in {"wild", "link", "slink"} THEN UnderGlobstar(cont.next[1])
    ELSE IF cont.k \in WalkEnds THEN FALSE
    ELSE UnderGlobstar(cont.frame[1].cont)

\* { ...query, recursive: true }: the query of the call that owns the callback
QueryAt(q, cont) == [q EXCEPT !.recursive = @ \/ UnderGlobstar(cont)]

\* the pattern created for the walk that ends in this callback
RECURSIVE EndsWith(_)
EndsWith(cont) ==
    IF cont.k \in {"glob", "wild"} THEN <<createFileRegex(cont.ltn)>>
    ELSE IF cont.k \in {"link", "slink"} THEN EndsWith(cont.next[1])
    ELSE IF cont.k \in WalkEnds THEN <<>>
    ELSE EndsWith(cont.frame[1].cont)

\* sendSingleResult(message, returnValue) of the readPathlike call whose
\* callback is cont: a throw, or the callback
sendSingleResult(M, q, cont, err, file) ==
    IF q.throwErrors /\ err THEN [M EXCEPT !.thrown = TRUE]
    ELSE Invoke(M, q, cont, err, file)

\* the for loop over the parts of an expression with wildcards, from the
\* part at index on: every part with a wildcard starts a walk of the parts
\* left of it; the catch block raises what the try block raised
RECURSIVE readParts(_, _, _, _, _)
readParts(M, q, cont, parts, index) ==
    IF index >= Len(parts) THEN M
    ELSE LET part == parts[index + 1]
             leftExpr == JoinParts(SubSeq(parts, 1, index), 0)
         IN IF ~HasWildcards(part) THEN readParts(M, q, cont, parts, index + 1)
            ELSE IF HasGlobstar(part)
            THEN IF part = <<"*", "*">> /\ ~HasGlobstar(JoinParts(parts, index + 1))
                 THEN readParts(
                        enqueue(M, Task("rp", leftExpr, "undefined",
                                        GlobCont(JoinParts(parts, index + 1), cont), <<>>)),
                        q, cont, parts, index + 1)
                 ELSE sendSingleResult(M, q, cont, TRUE, <<>>)
            ELSE readParts(
                    enqueue(M, Task("rp", leftExpr, "undefined",
                                    WildCont(JoinParts(parts, index), cont), <<>>)),
                    q, cont, parts, index + 1)

\* readPathlike(expr, callback, query) with the callback cont, which is
\* buffered when fsqBuffered made the call
readPathlike(M, q, cont, pathLikeIn) ==
    LET pathLike == IF isAbsolute(pathLikeIn) THEN pathLikeIn
                    ELSE resolve(packageRoot, pathLikeIn)
        M1 == setMaxConcurrency(M, M.maxConcurrency)
        M2 == IF cont.k = "fsq" THEN [M1 EXCEPT !.started = @ \cup {cont.of}] ELSE M1
    IN IF HasWildcards(pathLike)
       THEN readParts(M1, q, cont, Segments(pathLike), 0)
       ELSE IF cont.k = "buf"
            THEN \* callbackBuffered(`Could not determine path`, collection, query)
                 Invoke(IF pathLike # <<>>
                        THEN statPathlike(M1, pathLike, CollectCont(cont.of))
                        ELSE M1,
                        q, cont, TRUE, <<>>)
       ELSE IF pathLike # <<>> THEN statPathlike(M2, pathLike, cont)
       ELSE M1

\* the for loop of fsqStreamed or fsqBuffered over query.expr, from
\* expression i on; an exception ends it
RECURSIVE fsqLoop(_, _, _, _)
fsqLoop(M, q, exprs, i) ==
    IF i > Len(exprs) THEN M
    ELSE LET M1 == readPathlike(M, q, IF q.buffer THEN BufCont(i) ELSE FsqCont(i), exprs[i])
         IN IF M1.thrown THEN M1 ELSE fsqLoop(M1, q, exprs, i + 1)

\* the shapes of a call of fsq: a path string and a query, a list of paths
\* and a query, a query that carries its expressions, and fsqAsync, which
\* calls fsq with a list of paths and its query and a callback that settles
\* the promise
Shapes == {"string", "list", "query", "promise"}

\* the query createCompleteFSQ makes of a list of paths
QueryOfList ==
    [followLinks |-> FALSE, recursive |-> FALSE, wantChildren |-> "undefined",
     throwErrors |-> TRUE, bigint |-> FALSE, minSize |-> 0, buffer |-> FALSE]

\* the query fsq completes: the first argument when it is an object, which
\* a list of paths is, and the second one otherwise
queryOfCall(shp, q) == IF shp \in {"list", "promise"} THEN QueryOfList ELSE q

\* query.expr = [...query.expr, ...pathLikes]
exprOfCall(shp, exprs) == IF shp = "query" THEN exprs \o exprs ELSE exprs

\* a fsq that never finds it has nothing to do
noExpressionsNever(exprs) == FALSE

\* fsq found nothing to do
noExpressions(exprs) == Len(exprs) = 0

\* fsq(pathLikeOrQuery, queryOrCallback, callbackIn) with a callback
fsq(M, shp, q, exprs, concurrency) ==
    LET query == queryOfCall(shp, q)
        M1 == setMaxConcurrency(M, IF shp \in {"list", "promise"} THEN 0 ELSE concurrency)
    IN IF noExpressions(exprOfCall(shp, exprs)) THEN [M1 EXCEPT !.thrown = TRUE]
       ELSE fsqLoop(M1, query, exprOfCall(shp, exprs), 1)

\* ------------------------------------------------------------------------
\* Actions
\* ------------------------------------------------------------------------

\* the enqueue calls of the for loop over the children of the directory a
\* wildcard walk delivered
RECURSIVE enqueueMatches(_, _, _)
enqueueMatches(M, cont, children) ==
    IF children = <<>> THEN M
    ELSE enqueueMatches(enqueue(M, Task("w.child", <<>>, "undefined", cont, <<Head(children)>>)),
                        cont, Tail(children))

\* the function a task of the worker runs, q being the query of the call
\* that made the task and q0 the query of fsq; FileWorkerTask.run()
\* catches what it raises.  The callbacks of a wildcard walk are given an
\* err only when they are given no file.
taskBody(M, q0, task) ==
    LET q == QueryAt(q0, task.cont)
        outer == IF task.cont.next # <<>> THEN QueryAt(q0, task.cont.next[1]) ELSE q0
        M1 == CASE task.kind = "lstat" ->
                     StartProbe(M, Probe("lstat", "lstatCallback", task.path, task.wc, task.cont, <<>>))
                [] task.kind = "readlink" ->
                     StartProbe(M, Probe("readlink", "lstatCallback", task.path, task.wc, task.cont, <<>>))
                [] task.kind = "child" ->
                     lstatCallback(M, task.path, task.wc, task.cont)
                [] task.kind = "s.lstat" ->
                     StartProbe(M, Probe("lstat", "statPathlike", task.path, task.wc, task.cont, <<>>))
                [] task.kind = "s.readlink" ->
                     StartProbe(M, Probe("readlink", "statPathlike", task.path, task.wc, task.cont, <<>>))
                [] task.kind = "s.stat" ->
                     statPathlike(M, task.path, task.cont)
                [] task.kind = "s.callback" ->
                     Invoke(M, q, task.cont, FALSE, task.file)
                [] task.kind = "rp" ->
                     readPathlike(M, q, task.cont, task.path)
                [] task.kind = "g.match" ->
                     \* if (isMatch && file) sendSingleResult(err, file)
                     IF task.file # <<>> /\ matchSimpleCriteria(Criteria(q, EndsWith(task.cont)), task.file[1])
                     THEN sendSingleResult(M, outer, task.cont.next[1], FALSE, task.file)
                     ELSE M
                [] task.kind = "w.match" ->
                     IF task.file = <<>> THEN M
                     ELSE LET file == task.file[1]
                              M2 == IF matchSimpleCriteria(Criteria(q, EndsWith(task.cont)), file)
                                    THEN sendSingleResult(M, outer, task.cont.next[1], FALSE, task.file)
                                    ELSE M
                          IN IF ~isDirectory(file) THEN M2
                             ELSE IF file.children = <<>> THEN [M2 EXCEPT !.thrown = TRUE]
                             ELSE enqueueMatches(M2, task.cont, file.children[1])
                [] task.kind = "w.child" ->
                     \* if (isChildMatch && childFile) sendSingleResult(undefined, childFile)
                     IF matchSimpleCriteria(Criteria(q, EndsWith(task.cont)), task.file[1])
                     THEN sendSingleResult(M, outer, task.cont.next[1], FALSE, task.file)
                     ELSE M
                [] OTHER ->
                     Invoke(M, q, task.cont, FALSE,
                            << FileObject(Stats("file", q.bigint), [NoDetails EXCEPT !.fullPath = task.path]) >>)
    IN [M1 EXCEPT !.thrown = M.thrown]

\* a callback of the fs module: what it raises nobody catches
fsCallback(M, M1) ==
    IF M1.thrown /\ ~M.thrown THEN Uncaught([M1 EXCEPT !.thrown = FALSE]) ELSE M1

\* the query the handlers of the call read
EffQuery == IF call = "fsq" THEN queryOfCall(shape, o) ELSE o

Init ==
    /\ fsys \in FileSystems
    /\ call = "none"
    /\ shape = "none"
    /\ o = CHOOSE q \in Queries : ~q.followLinks /\ ~q.recursive /\ q.throwErrors
    /\ expr = <<>>
    /\ maxConcurrency = MAX_SAFE_INTEGER
    /\ taskList = <<>>
    /\ activeTasks = <<>>
    /\ immediates = <<>>
    /\ probes = {}
    /\ frames = <<>>
    /\ started = {}
    /\ delivered = <<>>
    /\ returned = <<>>
    /\ thrown = FALSE
    /\ crashed = FALSE
    /\ searcher = <<>>
    /\ scanned = <<>>
    /\ matching = <<>>

\* the paths a walk is started on: the directory /d, the links and the
\* nodes whose probes fail
Roots(fs) ==
    {P(<<"d">>)} \cup {p \in DOMAIN fs : fs[p].type = "link" \/ fs[p].fail # "none"}

\* malformed expressions: two globstars, and a globstar inside a name
TwoGlobstars == <<"/", "d", "/", "*", "*", "/", "*", "*">>
GlobstarInName == <<"/", "d", "/", "a", "*", "*">>

\* the expression lists of a query: none, one expression, and the
\* directory /d before or after a malformed expression
ExprLists(fs) ==
    LET Malformed == {TwoGlobstars, GlobstarInName}
    IN {<<>>} \cup {<<e>> : e \in Roots(fs) \cup Malformed}
       \cup {<<e, P(<<"d">>)>> : e \in Malformed}
       \cup {<<P(<<"d">>), e>> : e \in Malformed}

\* well-formed expressions with wildcards: the children of /d, the
\* descendants of /d named x, the grandchildren of /d, the children of /r
Star == <<"/", "d", "/", "*">>
Globstar == <<"/", "d", "/", "*", "*", "/", "x">>
TwoStars == <<"/", "d", "/", "*", "/", "*">>
ScenarioStar == <<"/", "r", "/", "*">>

\* the smallest size the query of the scenario asks for
ScenarioMinSize == 1000

\* the expressions with wildcards a query is made with on filesystem fs
WildExprs(fs) ==
    IF fs = ScenarioFS THEN {ScenarioStar}
    ELSE IF \A p \in DOMAIN fs : fs[p].type # "link" /\ fs[p].fail = "none"
         THEN {Star, Globstar} \cup (IF fs \in {FlatDir(1), SubDirFS} THEN {TwoStars} ELSE {})
    ELSE {}

\* the calls of fsq: [shape, exprs, query, conc], conc being the
\* maxConcurrency of the query (0: not set)
FsqCalls(fs) ==
    LET Plain == {q \in Queries : ~q.followLinks /\ ~q.recursive}
        Buffered == {[q EXCEPT !.buffer = TRUE] : q \in Plain}
        BySize == IF fs = ScenarioFS
                 THEN {[q EXCEPT !.minSize = ScenarioMinSize] : q \in Plain}
                 ELSE {}
        Call(shp, exprs, q, c) == [shape |-> shp, exprs |-> exprs, query |-> q, conc |-> c]
    IN {Call("string", <<e>>, q, c) :
            e \in Roots(fs) \cup {TwoGlobstars, GlobstarInName}, q \in Queries, c \in 0..MaxConc}
       \cup {Call("string", <<e>>, q, 0) :
            e \in WildExprs(fs) \cup {P(<<"d">>)}, q \in Plain \cup Buffered \cup BySize}
       \cup {Call("list", exprs, q, 0) :
            exprs \in ExprLists(fs) \cup {<<e>> : e \in WildExprs(fs)}, q \in Plain}
       \cup {Call("query", exprs, q, 0) :
            exprs \in {<<>>} \cup {<<P(<<"d">>)>> : n \in {m \in 0..1 : fs = FlatDir(m)}},
            q \in Plain \cup Buffered}
       \cup {Call("promise", exprs, q, 0) :
            exprs \in {<<>>, <<P(<<"d">>)>>} \cup {<<e>> : e \in WildExprs(fs)},
            q \in {[QueryOfList EXCEPT !.buffer = TRUE]}}

\* FileWorker.setMaxConcurrency(c) before the call
SetMaxConcurrency ==
    /\ call = "none"
    /\ maxConcurrency = MAX_SAFE_INTEGER
    /\ \E c \in 1..MaxConc : Becomes(setMaxConcurrency(Machine, c))
    /\ UNCHANGED <<searcher, scanned, matching, fsys, call, shape, o, expr, returned>>

\* dfs.lstatSync(path, options)
CallLstatSync ==
    /\ call = "none"
    /\ maxConcurrency = MAX_SAFE_INTEGER
    /\ \E path \in Roots(fsys), options \in Options :
        /\ expr' = <<path>>
        /\ o' = options
        /\ returned' = <<lstatSync(fsys, path, options, 0)>>
    /\ call' = "lstatSync"
    /\ shape' = "none"
    /\ UNCHANGED <<searcher, scanned, matching, fsys, maxConcurrency, taskList, activeTasks, immediates, probes,
                   frames, started, delivered, thrown, crashed>>

\* dfs.lstatCallback(path, options, callback)
CallLstatCallback ==
    /\ call = "none"
    /\ \E path \in Roots(fsys), options \in Options :
        /\ expr' = <<path>>
        /\ o' = options
        /\ Becomes(lstatCallback([Machine EXCEPT !.started = {1}], path, options.wantChildren,
                                 RootCont))
    /\ call' = "lstatCallback"
    /\ shape' = "none"
    /\ UNCHANGED <<searcher, scanned, matching, fsys, returned>>

\* FileUtil.statPathlike(path, callback, query)
CallStatPathlike ==
    /\ call = "none"
    /\ maxConcurrency = MAX_SAFE_INTEGER
    /\ \E path \in Roots(fsys), query \in Queries, c \in 0..MaxConc :
        /\ expr' = <<path>>
        /\ o' = query
        /\ Becomes(statPathlike(setMaxConcurrency([Machine EXCEPT !.started = {1}], c),
                                path, RootCont))
    /\ call' = "statPathlike"
    /\ shape' = "none"
    /\ UNCHANGED <<searcher, scanned, matching, fsys, returned>>

\* FileUtil.fsq(...) and FileUtil.fsqAsync(...)
CallFsq ==
    /\ call = "none"
    /\ maxConcurrency = MAX_SAFE_INTEGER
    /\ \E c \in FsqCalls(fsys) :
        /\ expr' = c.exprs
        /\ o' = c.query
        /\ shape' = c.shape
        /\ Becomes(fsq(Machine, c.shape, c.query, c.exprs, c.conc))
    /\ call' = "fsq"
    /\ UNCHANGED <<searcher, scanned, matching, fsys, returned>>

\* the event loop runs the next setImmediate callback: taskCallback
TaskCallback ==
    /\ ~crashed
    /\ immediates # <<>>
    /\ LET task == Head(immediates)
           M1 == [Machine EXCEPT !.immediates = Tail(@)]
       IN Becomes(taskCompleted(taskBody(M1, EffQuery, task), task))
    /\ UNCHANGED <<searcher, scanned, matching, fsys, call, shape, o, expr, returned>>

Answered(p) == [Machine EXCEPT !.probes = @ \ {p}]

\* lstatCallback: fs.lstat answers
LstatAnswered ==
    /\ ~crashed
    /\ \E p \in probes :
        /\ p.op = "lstat" /\ p.walker = "lstatCallback"
        /\ Becomes(fsCallback(Machine, lstatAnswered(Answered(p), QueryAt(EffQuery, p.cont), p, fsys)))
    /\ UNCHANGED <<searcher, scanned, matching, fsys, call, shape, o, expr, returned>>

\* lstatCallback: fs.readdir answers
ReaddirAnswered ==
    /\ ~crashed
    /\ \E p \in probes :
        /\ p.op = "readdir" /\ p.walker = "lstatCallback"
        /\ Becomes(fsCallback(Machine, readdirAnswered(Answered(p), QueryAt(EffQuery, p.cont), p, fsys)))
    /\ UNCHANGED <<searcher, scanned, matching, fsys, call, shape, o, expr, returned>>

\* lstatCallback: fs.readlink answers; the model resolves at most
\* MaxLinkDepth nested link targets
ReadlinkAnswered ==
    /\ ~crashed
    /\ \E p \in probes :
        /\ p.op = "readlink" /\ p.walker = "lstatCallback"
        /\ LinkDepth(p.cont) < MaxLinkDepth
        /\ Becomes(fsCallback(Machine, readlinkAnswered(Answered(p), QueryAt(EffQuery, p.cont), p, fsys)))
    /\ UNCHANGED <<searcher, scanned, matching, fsys, call, shape, o, expr, returned>>

\* statPathlike: fs.lstat answers
SLstatAnswered ==
    /\ ~crashed
    /\ \E p \in probes :
        /\ p.op = "lstat" /\ p.walker = "statPathlike"
        /\ Becomes(fsCallback(Machine, sLstatAnswered(Answered(p), QueryAt(EffQuery, p.cont), p, fsys)))
    /\ UNCHANGED <<searcher, scanned, matching, fsys, call, shape, o, expr, returned>>

\* statPathlike: fs.readdir answers
SReaddirAnswered ==
    /\ ~crashed
    /\ \E p \in probes :
        /\ p.op = "readdir" /\ p.walker = "statPathlike"
        /\ Becomes(fsCallback(Machine, sReaddirAnswered(Answered(p), QueryAt(EffQuery, p.cont), p, fsys)))
    /\ UNCHANGED <<searcher, scanned, matching, fsys, call, shape, o, expr, returned>>

\* statPathlike: fs.readlink answers; the model follows at most
\* MaxLinkDepth nested link targets
SReadlinkAnswered ==
    /\ ~crashed
    /\ \E p \in probes :
        /\ p.op = "readlink" /\ p.walker = "statPathlike"
        /\ LinkDepth(p.cont) < MaxLinkDepth
        /\ Becomes(fsCallback(Machine, sReadlinkAnswered(Answered(p), QueryAt(EffQuery, p.cont), p, fsys)))
    /\ UNCHANGED <<searcher, scanned, matching, fsys, call, shape, o, expr, returned>>

Next ==
    \/ SetMaxConcurrency
    \/ CallLstatSync
    \/ CallLstatCallback
    \/ CallStatPathlike
    \/ CallFsq
    \/ TaskCallback
    \/ LstatAnswered
    \/ ReaddirAnswered
    \/ ReadlinkAnswered
    \/ SLstatAnswered
    \/ SReaddirAnswered
    \/ SReadlinkAnswered

Spec == Init /\ [][Next]_vars

\* ------------------------------------------------------------------------
\* Properties
\* ------------------------------------------------------------------------

Asynchronous == call \in {"lstatCallback", "statPathlike", "fsq"}

\* nothing is left for the event loop to run
Quiescent == immediates = <<>> /\ probes = {}

\* the names the operating system lists for the directory at path
Listing(path) == OsReaddir(fsys, path).files

\* every listing inside the Entry has one child per listed name
RECURSIVE Whole(_)
Whole(e) ==
    /\ e.children # <<>> =>
        /\ Len(e.children[1]) = Len(Listing(e.fullPath))
        /\ \A i \in DOMAIN e.children[1] : Whole(e.children[1][i])
    /\ e.linkTarget # <<>> => Whole(e.linkTarget[1])

\* C1: an asynchronous walk delivers a directory only once every one of the
\* n probes of its children has completed: each directory delivered has
\* exactly n children, and no listing in progress ever holds more than n.
C1_DirectoryAfterAllChildren ==
    Asynchronous =>
        /\ \A i \in DOMAIN delivered :
            delivered[i].file # <<>> => Whole(delivered[i].file[1])
        /\ \A f \in DOMAIN frames :
            /\ Len(frames[f].children) <= Len(Listing(f.path))
            /\ frames[f].n >= 0

\* a directory of two or more children was delivered whose first child is
\* not the first name listed: the probes completed out of order
C1_Witness ==
    /\ call = "lstatCallback"
    /\ \E i \in DOMAIN delivered :
        /\ delivered[i].file # <<>>
        /\ delivered[i].file[1].children # <<>>
        /\ Len(delivered[i].file[1].children[1]) >= 2
        /\ delivered[i].file[1].children[1][1].name # Listing(delivered[i].file[1].fullPath)[1]

NoLinks(fs) == \A p \in DOMAIN fs : fs[p].type # "link"
NoFailures(fs) == \A p \in DOMAIN fs : fs[p].fail = "none"

\* C2: on a tree without links and without failing probes, empty
\* directories included, an asynchronous stat with recursive or
\* wantChildren invokes its callback exactly once: when nothing is left to
\* run or to start, the callback has been invoked once.
C2_CallbackExactlyOnce ==
    (/\ call = "lstatCallback"
     /\ NoLinks(fsys) /\ NoFailures(fsys)
     /\ o.recursive \/ o.wantChildren = "true"
     /\ Quiescent /\ taskList = <<>>)
    => Len(delivered) = 1

\* C3: the number of filesystem probes in flight never exceeds
\* maxConcurrency.
C3_InFlightAtMostMaxConcurrency == Cardinality(probes) <= maxConcurrency

\* C4: for every maxConcurrency >= 1, a task that waits because the bound
\* was reached starts once a running task completes, with no further
\* enqueue: a task never waits while no task is active.
C4_WaitingTaskStarts == taskList # <<>> => activeTasks # <<>>

\* the paths, types, link target names and presence of children of an
\* Entry and of the Entries below it
RECURSIVE Shape(_)
Shape(e) ==
    {<<e.fullPath, e.stats, e.linkTargetName, e.children # <<>>>>}
    \cup (IF e.children = <<>> THEN {}
          ELSE UNION {Shape(e.children[1][i]) : i \in DOMAIN e.children[1]})

\* C5: the synchronous and the asynchronous stat of the same path with the
\* same options on the same filesystem produce structurally identical Entry
\* trees: the same paths, types, link target names, and children defined
\* or undefined.
C5_SyncAndAsyncSameTree ==
    (call = "lstatCallback" /\ delivered # <<>> /\ delivered[1].file # <<>>)
    => Shape(delivered[1].file[1]) = Shape(lstatSync(fsys, expr[1], o, 0))

\* the children of the directory at path whose lstat fails
FailingChildren(path) ==
    {i \in DOMAIN Listing(path) : OsLstat(fsys, join(path, Listing(path)[i])).err}

\* the Entry is the directory at path with one child per listed name: a
\* placeholder carrying the error for the child that fails, an Entry for
\* every other one
SiblingsAndPlaceholder(e, path) ==
    /\ e.stats = "directory"
    /\ e.children # <<>>
    /\ Len(e.children[1]) = Len(Listing(path))
    /\ \A i \in DOMAIN Listing(path) :
        \E j \in DOMAIN e.children[1] :
            LET child == e.children[1][j]
            IN /\ child.fullPath = join(path, Listing(path)[i])
               /\ IF i \in FailingChildren(path)
                  THEN child.stats = "none" /\ child.error
                  ELSE child.stats # "none" /\ ~child.error

\* a directory that can be listed and has exactly one failing child is
\* walked without throwErrors
OneChildFails ==
    /\ expr # <<>>
    /\ ~o.throwErrors
    /\ OsLstat(fsys, expr[1]).type = "directory"
    /\ ~OsReaddir(fsys, expr[1]).err
    /\ Cardinality(FailingChildren(expr[1])) = 1

\* C6: with throwErrors false, when the probe of one child fails, the
\* directory is still delivered, with every other sibling and one
\* placeholder carrying the error, by the synchronous and by the
\* asynchronous walker.
C6_FailingChildBecomesPlaceholder ==
    /\ (call = "lstatSync" /\ OneChildFails /\ o.wantChildren # "false")
        => /\ returned # <<>>
           /\ SiblingsAndPlaceholder(returned[1], expr[1])
    /\ (call = "lstatCallback" /\ OneChildFails /\ (o.wantChildren = "true" \/ o.recursive))
        => /\ ~crashed
           /\ (Quiescent /\ taskList = <<>>) =>
                /\ Len(delivered) = 1
                /\ delivered[1].file # <<>>
                /\ SiblingsAndPlaceholder(delivered[1].file[1], expr[1])

\* some Entry was handed to the caller
EntryDelivered ==
    \/ returned # <<>>
    \/ \E i \in DOMAIN delivered : delivered[i].file # <<>>

\* the lstat of the path of a stat call with throwErrors fails
RootFails == expr # <<>> /\ o.throwErrors /\ OsLstat(fsys, expr[1]).err

\* C7: with throwErrors true, the error of a failing path propagates to
\* the caller as a thrown or rejected failure and the walk delivers no
\* Entry for it, real or placeholder, synchronous or asynchronous.
C7_ErrorPropagatesToCaller ==
    /\ (call = "lstatSync" /\ RootFails) => thrown /\ ~EntryDelivered
    /\ (call = "lstatCallback" /\ RootFails)
        => /\ ~crashed
           /\ ~EntryDelivered
           /\ (Quiescent /\ taskList = <<>>) =>
                \E i \in DOMAIN delivered : delivered[i].err

\* C8: in a query of several expressions with throwErrors true, an error
\* in one expression does not change what is delivered for the others:
\* the walk of every well-formed expression of the query is started.
C8_OtherExpressionsUnaffected ==
    (call = "fsq" /\ Len(expr) >= 2 /\ o.throwErrors)
    => \A i \in DOMAIN expr : ~HasWildcards(expr[i]) => i \in started

\* the number of link targets nested inside an Entry
RECURSIVE TargetDepth(_)
TargetDepth(e) == IF e.linkTarget = <<>> THEN 0 ELSE 1 + TargetDepth(e.linkTarget[1])

\* C9: with followLinks unset, a stat terminates on self-referential and
\* mutually referential links because link targets are never resolved
\* recursively: the target of a link's target is never read.
C9_TargetsNotResolvedRecursively ==
    ~o.followLinks =>
        /\ \A p \in probes : p.op = "readlink" => LinkDepth(p.cont) = 0
        /\ returned # <<>> => TargetDepth(returned[1]) <= 1

\* the directories being listed on the way to this callback
RECURSIVE OnPath(_)
OnPath(cont) ==
    IF cont.k \in WalkEnds THEN {}
    ELSE IF cont.k \in {"link", "slink"} THEN OnPath(cont.next[1])
    ELSE {Lookup(fsys, <<>>, Segments(cont.frame[1].path), TRUE, MAXSYMLINKS)}
         \cup OnPath(cont.frame[1].cont)

\* C10: with followLinks true, a link that resolves to a directory already
\* on the current resolution path is not entered again: no directory is
\* listed while it is being listed further up the same path.
C10_NoReentryOfDirectoryOnPath ==
    (Asynchronous /\ o.followLinks) =>
        \A p \in probes :
            p.op = "readdir" =>
                Lookup(fsys, <<>>, Segments(p.path), TRUE, MAXSYMLINKS) \notin OnPath(p.cont)

\* the path of the call is a symbolic link whose target is a directory,
\* and the options set nothing but followLinks
LinkToDir ==
    /\ expr # <<>>
    /\ OsLstat(fsys, expr[1]).type = "link"
    /\ ~OsReaddir(fsys, expr[1]).err
    /\ ~o.recursive /\ o.wantChildren = "undefined"

\* what the Entry of the link `link -> dir` has to look like
LinkEntryAsSpecified(e) ==
    /\ isSymbolicLink(e)
    /\ IF o.followLinks
       THEN /\ e.children # <<>>
            /\ Len(e.children[1]) = Len(Listing(expr[1]))
            /\ {e.children[1][i].name : i \in DOMAIN e.children[1]}
                = {Listing(expr[1])[i] : i \in DOMAIN Listing(expr[1])}
       ELSE /\ e.linkTargetName = <<fsys[expr[1]].text>>
            /\ e.children = <<>>

\* C11: for a link to a directory, without followLinks the Entry is a
\* symbolic link whose linkTargetName is the raw link text and whose
\* children are undefined; with followLinks its children correspond one to
\* one, by name, to the children of the directory.
C11_LinkEntryShallowOrMirrored ==
    /\ (call = "lstatSync" /\ LinkToDir)
        => returned # <<>> /\ LinkEntryAsSpecified(returned[1])
    /\ (call = "lstatCallback" /\ LinkToDir)
        => /\ ~crashed
           /\ \A i \in DOMAIN delivered :
                delivered[i].file # <<>> /\ LinkEntryAsSpecified(delivered[i].file[1])

\* the paths of the filesystem below the directory at path
Descendants(path) ==
    {p \in DOMAIN fsys : Len(p) > Len(path) + 1 /\ SubSeq(p, 1, Len(path) + 1) = path \o <<sep>>}

\* the paths of the Entries handed to the caller's callback
DeliveredPaths == {delivered[i].file[1].fullPath : i \in {j \in DOMAIN delivered : delivered[j].file # <<>>}}

\* a streamed query of the one expression e has nothing left to run
StreamedDone(e) ==
    /\ call = "fsq" /\ shape = "string" /\ expr = <<e>> /\ ~o.buffer
    /\ Quiescent /\ taskList = <<>>

\* C12: for the expression L/**/R with one globstar, every descendant of L,
\* at every depth, whose name matches R is delivered to the caller: when
\* the query /d/**/x has nothing left to run, every descendant of /d named
\* x has been delivered.
C12_GlobstarDeliversDescendants ==
    StreamedDone(Globstar) =>
        \A p \in Descendants(P(<<"d">>)) : BaseNameOf(p) = <<"x">> => p \in DeliveredPaths

\* the paths of the immediate children of the directory at path
ChildrenOf(path) == {join(path, Listing(path)[i]) : i \in DOMAIN Listing(path)}

\* a streamed query of the one expression e is being answered
Streamed(e) == call = "fsq" /\ shape = "string" /\ expr = <<e>> /\ ~o.buffer

\* C13: for an expression L/P without globstar, P being one wildcard
\* segment, exactly the immediate children of L that match P and satisfy the
\* query are delivered, and L itself is not: /d/* delivers the children of
\* /d and nothing else, and /r/* with minSize 1000 delivers exactly the file
\* b of 5000 bytes, not the file a of 50 bytes.
C13_WildcardDeliversChildrenOnly ==
    /\ Streamed(Star) =>
        /\ DeliveredPaths \subseteq ChildrenOf(P(<<"d">>))
        /\ StreamedDone(Star) => ChildrenOf(P(<<"d">>)) \subseteq DeliveredPaths
    /\ (Streamed(ScenarioStar) /\ o.minSize = ScenarioMinSize) =>
        /\ DeliveredPaths \subseteq {P(<<"r", "b">>)}
        /\ StreamedDone(ScenarioStar) => DeliveredPaths = {P(<<"r", "b">>)}

\* C14: an expression whose globstar shares its segment with other
\* characters, or that holds more than one globstar, is reported as an error
\* thrown by the call, whatever throwErrors says, and delivers no entry.
C14_MalformedExpressionThrows ==
    (call = "fsq" /\ Len(expr) = 1 /\ expr[1] \in {TwoGlobstars, GlobstarInName})
    => thrown /\ delivered = <<>>

\* C15: fsq called with no path expression raises an error at once, before
\* any probe of the filesystem is started and without a call of the
\* callback, whatever throwErrors says.
C15_NoExpressionsThrows ==
    (call = "fsq" /\ expr = <<>>)
    => /\ thrown
       /\ probes = {} /\ taskList = <<>> /\ immediates = <<>>
       /\ delivered = <<>>

C15_Witness ==
    /\ call = "fsq" /\ shape = "query" /\ expr = <<>>
    /\ ~o.throwErrors
    /\ thrown

\* the walks of the call have all ended: nothing is queued, scheduled or
\* awaited, and the process is alive
WalksEnded == Quiescent /\ taskList = <<>> /\ ~crashed

\* C16: when the walks of a buffered query have ended its callback has been
\* invoked exactly once, and when the walks behind fsqAsync have ended its
\* promise is settled (the query has at least one expression).
C16_BufferedCallbackOnce ==
    /\ (call = "fsq" /\ shape \in {"string", "query"} /\ o.buffer /\ expr # <<>> /\ WalksEnded)
       => Len(delivered) = 1
    /\ (call = "fsq" /\ shape = "promise" /\ expr # <<>> /\ WalksEnded)
       => thrown \/ delivered # <<>>

\* the callback was invoked twice with an Entry of the same path
DeliveredTwice ==
    \E i, j \in DOMAIN delivered :
        /\ i < j
        /\ delivered[i].file # <<>> /\ delivered[j].file # <<>>
        /\ delivered[i].file[1].fullPath = delivered[j].file[1].fullPath

Lit(ch) == [ch |-> ch, star |-> FALSE]
Many(ch) == [ch |-> ch, star |-> TRUE]

Largest(S) == CHOOSE x \in S : \A y \in S : y <= x
Smallest(S) == CHOOSE x \in S : \A y \in S : x <= y

\* String.prototype.charAt(i), i counted from 0: "" outside the text
charAt(s, i) == IF i >= 0 /\ i < Len(s) THEN s[i + 1] ELSE ""

\* the number of characters ch of s from offset i on
RECURSIVE RunLength(_, _, _)
RunLength(s, i, ch) == IF charAt(s, i) = ch THEN 1 + RunLength(s, i + 1, ch) ELSE 0

\* the offset at which the backtracking match of re that starts at offset i
\* of s ends, -1 when there is none
RECURSIVE MatchEnd(_, _, _)
MatchEnd(re, s, i) ==
    IF re = <<>> THEN i
    ELSE IF Head(re).star
         THEN LET ks == {k \in 0..RunLength(s, i, Head(re).ch) :
                            MatchEnd(Tail(re), s, i + k) # -1}
              IN IF ks = {} THEN -1 ELSE MatchEnd(Tail(re), s, i + Largest(ks))
    ELSE IF charAt(s, i) = Head(re).ch THEN MatchEnd(Tail(re), s, i + 1)
    ELSE -1

\* RegExp.prototype.exec(s) of an expression with the global flag whose
\* lastIndex is lastIndex: the match, if any, and the new lastIndex
exec(re, lastIndex, s) ==
    LET from == IF lastIndex < 0 THEN 0 ELSE lastIndex
        starts == {i \in from..Len(s) : MatchEnd(re, s, i) # -1}
    IN IF starts = {} THEN [lastIndex |-> 0, match |-> <<>>]
       ELSE LET i == Smallest(starts)
            IN [lastIndex |-> MatchEnd(re, s, i),
                match |-> <<[index |-> i, end |-> MatchEnd(re, s, i)]>>]

\* file.readFileSync(encoding): the text of the file; it throws when the
\* file cannot be read
readFileSync(fs, path) == fs[path].text
readFails(fs, path) == fs[path].fail = "read"

\* new FileContentSearcher(file, criteria).  The position records the
\* searcher made are kept in heap, in the order of their making; position
\* refers to one of them, as the position of a result does.
FileContentSearcher(file, criteria) ==
    [file |-> file, criteria |-> criteria, lastIndex |-> 0, content |-> <<>>,
     isFresh |-> TRUE, lastMatch |-> <<>>,
     heap |-> <<[line |-> 0, col |-> 0, index |-> 0]>>, position |-> 1]

\* a next() that advances the position record it has
newPositionInPlace(heap, ref, newPos) ==
    [heap |-> [heap EXCEPT ![ref] = newPos], ref |-> ref]

\* const newPos = { ...this.position }; ...; this.position = newPos: the
\* advanced position is a record of its own
newPosition(heap, ref, newPos) ==
    [heap |-> Append(heap, newPos), ref |-> Len(heap) + 1]

\* the for loop of next() over the characters from offset i up to max
RECURSIVE advance(_, _, _, _)
advance(content, newPos, i, max) ==
    IF i >= max THEN newPos
    ELSE advance(content,
                 IF charAt(content, i) = "\n"
                 THEN [line |-> newPos.line + 1, col |-> 0, index |-> newPos.index + 1]
                 ELSE [line |-> newPos.line, col |-> newPos.col + 1, index |-> newPos.index + 1],
                 i + 1, max)

\* a next() that reports the end together with the last match
resultDoneAhead(lastMatch, following) == following = <<>>

\* done: lastMatch == null, of the result that carries lastMatch
resultDone(lastMatch, following) == lastMatch = <<>>

\* FileContentSearcher.next() of searcher this: the searcher afterwards,
\* and the result returned or the exception thrown
next(fs, this) ==
    LET content == IF this.content = <<>> THEN readFileSync(fs, this.file) ELSE this.content
        first == exec(this.criteria, -1, content)
        fresh == IF this.isFresh
                 THEN [this EXCEPT !.content = content,
                                   !.heap = Append(@, [line |-> 1, col |-> 0, index |-> 0]),
                                   !.position = Len(this.heap) + 1,
                                   !.lastIndex = first.lastIndex,
                                   !.lastMatch = first.match,
                                   !.isFresh = FALSE]
                 ELSE [this EXCEPT !.content = content]
        lastMatch == fresh.lastMatch
        position == fresh.heap[fresh.position]
        newPos == advance(content, position, position.index, lastMatch[1].index + 1)
        stored == newPosition(fresh.heap, fresh.position, newPos)
        following == exec(fresh.criteria, fresh.lastIndex, content)
    IN IF this.content = <<>> /\ readFails(fs, this.file)
       THEN [searcher |-> this, result |-> <<>>, thrown |-> TRUE]
       ELSE IF lastMatch = <<>>
       THEN [searcher |-> fresh, result |-> <<[done |-> TRUE, value |-> <<>>]>>,
             thrown |-> FALSE]
       ELSE [searcher |-> [fresh EXCEPT !.heap = stored.heap,
                                        !.position = stored.ref,
                                        !.lastIndex = following.lastIndex,
                                        !.lastMatch = following.match],
             result |-> <<[done |-> resultDone(lastMatch, following.match),
                           value |-> <<[groups |-> lastMatch[1], position |-> newPos,
                                        ref |-> stored.ref]>>]>>,
             thrown |-> FALSE]

\* FileContentSearcher.reset()
reset(this) == [this EXCEPT !.isFresh = TRUE]

\* the longest generated text, the most calls of next() in one scan, and
\* the most position records a searcher that is reset may have made
MaxText == 3
MaxCalls == 6
MaxHeap == 8

\* the characters of the generated texts
Alphabet == {"a", "b", "\n"}

\* the text of the worked example: foo, newline, bar foo, newline
ScenarioText == <<"f", "o", "o", "\n", "b", "a", "r", " ", "f", "o", "o", "\n">>
ScenarioPattern == <<Lit("f"), Lit("o"), Lit("o")>>

Texts == UNION {[1..n -> Alphabet] : n \in 0..MaxText}

\* the content patterns /a/, /ab/, /\n/, /a*/ and /a*b/
Patterns ==
    {<<Lit("a")>>, <<Lit("a"), Lit("b")>>, <<Lit("\n")>>, <<Many("a")>>, <<Many("a"), Lit("b")>>}

\* the file /f with the given text
TextFS(text) == (P(<<"f">>) :> [File EXCEPT !.text = text])

\* the text another process writes to the file during a scan
Rewritten == <<"b", "a", "\n", "a", "b">>

\* no walker and no query entry point was called
NoCall ==
    /\ call = "none"
    /\ shape = "none"
    /\ o = CHOOSE q \in Queries : ~q.followLinks /\ ~q.recursive /\ q.throwErrors
    /\ expr = <<>>
    /\ maxConcurrency = MAX_SAFE_INTEGER
    /\ taskList = <<>>
    /\ activeTasks = <<>>
    /\ immediates = <<>>
    /\ probes = {}
    /\ frames = <<>>
    /\ started = {}
    /\ delivered = <<>>
    /\ returned = <<>>
    /\ thrown = FALSE
    /\ crashed = FALSE

\* A searcher was constructed for the file /f and a content pattern;
\* nothing else was called.
ScanInit ==
    /\ \E text \in Texts \cup {ScenarioText}, fail \in {"none", "read"} :
        /\ fsys = [p \in DOMAIN TextFS(text) |-> Failing(TextFS(text)[p], fail)]
        /\ \E re \in (IF text = ScenarioText THEN {ScenarioPattern} ELSE Patterns) :
            searcher = <<FileContentSearcher(P(<<"f">>), re)>>
    /\ scanned = <<>>
    /\ matching = <<>>
    /\ NoCall

\* searcher.next(), as the loop of matchCriteria calls it
CallNext ==
    /\ searcher # <<>>
    /\ Len(scanned) < MaxCalls
    /\ LET r == next(fsys, searcher[1])
       IN /\ searcher' = <<r.searcher>>
          /\ scanned' = scanned \o r.result
          /\ thrown' = r.thrown
    /\ UNCHANGED <<fsys, matching, callVars>>

\* searcher.reset(): the next call of next() begins a new scan
CallReset ==
    /\ searcher # <<>>
    /\ scanned # <<>>
    /\ Len(searcher[1].heap) < MaxHeap
    /\ searcher' = <<reset(searcher[1])>>
    /\ scanned' = <<>>
    /\ UNCHANGED <<matching, walkerVars>>

\* another process writes the file
WriteFile ==
    /\ searcher # <<>>
    /\ readFileSync(fsys, searcher[1].file) # Rewritten
    /\ fsys' = [fsys EXCEPT ![searcher[1].file].text = Rewritten]
    /\ UNCHANGED <<searcher, scanned, matching, thrown, callVars>>

\* the file that could not be read becomes readable
MakeReadable ==
    /\ searcher # <<>>
    /\ readFails(fsys, searcher[1].file)
    /\ fsys' = [fsys EXCEPT ![searcher[1].file].fail = "none"]
    /\ UNCHANGED <<searcher, scanned, matching, thrown, callVars>>

ScanNext ==
    \/ CallNext
    \/ CallReset
    \/ WriteFile
    \/ MakeReadable

ScanSpec == ScanInit /\ [][ScanNext]_vars

\* content.matchAll(re): the matches of one scan of the whole text with the
\* global flag, which steps one character on after an empty match
RECURSIVE matchAll(_, _, _)
matchAll(re, s, from) ==
    LET r == exec(re, from, s)
    IN IF from > Len(s) \/ r.match = <<>> THEN <<>>
       ELSE <<r.match[1]>>
            \o matchAll(re, s, IF r.match[1].end = r.match[1].index
                               THEN r.lastIndex + 1 ELSE r.lastIndex)

\* the text the scan runs over: the content the searcher has read
ScannedText == searcher[1].content

\* the results of the scan that carry a match, and their matches, in order
Found == SelectSeq(scanned, LAMBDA r : r.value # <<>>)
Yielded == [i \in DOMAIN Found |-> Found[i].value[1].groups]

\* the scan has reported its end
ScanDone == \E i \in DOMAIN scanned : scanned[i].done

\* C18: the matches next() yields up to done=true are those of one scan of the
\* whole text with the global flag, in the order of the text: while the scan
\* runs they are its first matches, and at done=true they are all of them.
C18_NextYieldsTheGlobalScan ==
    (searcher # <<>> /\ scanned # <<>>)
    => LET all == matchAll(searcher[1].criteria, ScannedText, 0)
       IN /\ Len(Yielded) <= Len(all)
          /\ Yielded = SubSeq(all, 1, Len(Yielded))
          /\ ScanDone => Yielded = all

\* the number of newline characters among the first n characters of s
RECURSIVE Newlines(_, _)
Newlines(s, n) ==
    IF n = 0 THEN 0 ELSE Newlines(s, n - 1) + (IF s[n] = "\n" THEN 1 ELSE 0)

\* the number of characters between the last newline before offset n (or
\* the start of s) and offset n
RECURSIVE Column(_, _)
Column(s, n) == IF n = 0 \/ s[n] = "\n" THEN 0 ELSE 1 + Column(s, n - 1)

\* C19: the position of every match next() returned is the offset of the
\* first character of the match, with line one more than the number of
\* newlines before that offset and col the number of characters since the
\* last of them; for the text of the worked example and /foo/ the matches
\* are at line 1, col 0 and at line 2, col 4, and the third call reports
\* the end.
C19_PositionOfMatch ==
    /\ \A i \in DOMAIN Found :
        LET m == Found[i].value[1]
        IN /\ m.position.index = m.groups.index
           /\ m.position.line = 1 + Newlines(ScannedText, m.groups.index)
           /\ m.position.col = Column(ScannedText, m.groups.index)
    /\ (searcher # <<>> /\ ScannedText = ScenarioText /\ Len(scanned) = 3)
       => /\ scanned[1].value[1].position.line = 1 /\ scanned[1].value[1].position.col = 0
          /\ scanned[2].value[1].position.line = 2 /\ scanned[2].value[1].position.col = 4
          /\ scanned[3] = [done |-> TRUE, value |-> <<>>]

\* C20: a scan ends: a text of n characters has at most n + 1 matches, so
\* next() has reported done=true once it was called n + 2 times.
C20_ScanEnds ==
    (searcher # <<>> /\ Len(scanned) >= Len(ScannedText) + 2) => ScanDone

\* C21: in every result next() returned, value is null exactly when done is
\* true; a result that carries a match, the last one of the file included,
\* has done=false.
C21_NullValueIffDone ==
    \A i \in DOMAIN scanned : (scanned[i].value = <<>>) <=> scanned[i].done

\* the last match of a file with two matches was returned, and then the end
C21_Witness ==
    /\ Len(scanned) = 3
    /\ scanned[1].value # <<>> /\ scanned[2].value # <<>>
    /\ scanned[3].done

\* C22: no call of next() or reset() modifies a position record the
\* searcher made before the call, so none that a result carries; and the
\* results of the scan still carry the positions they were returned with.
C22_ResultsNeverModified ==
    [][/\ \A k \in DOMAIN searcher[1].heap : searcher'[1].heap[k] = searcher[1].heap[k]
       /\ \A i \in DOMAIN scanned' :
            scanned'[i].value # <<>>
            => scanned'[i].value[1].position = searcher'[1].heap[scanned'[i].value[1].ref]]_vars

\* results were returned by a searcher that had been reset before
C22_Witness ==
    /\ searcher # <<>>
    /\ Len(Found) >= 2
    /\ Len(searcher[1].heap) >= Len(Found) + 3

\* the searcher a new FileContentSearcher(file, criteria) over the file of
\* the searcher is after its first next(), and the result of that call
Anew == next(fsys, FileContentSearcher(searcher[1].file, searcher[1].criteria))

\* searcher this scans on as searcher that does
SameScan(this, that) ==
    /\ this.content = that.content
    /\ this.lastIndex = that.lastIndex
    /\ this.lastMatch = that.lastMatch
    /\ this.isFresh = that.isFresh
    /\ this.heap[this.position] = that.heap[that.position]

\* C23: the first next() after a reset() reads the file again: it returns
\* what the first next() of a new scanner over the text the file then has
\* returns, from position line 1, col 0, index 0, and leaves the searcher
\* scanning on as the new one does.
C23_ResetStartsAnew ==
    [][(searcher[1].isFresh /\ scanned' # scanned)
       => /\ SameScan(searcher'[1], Anew.searcher)
          /\ scanned'[1].done = Anew.result[1].done
          /\ scanned'[1].value # <<>>
             => /\ Anew.result[1].value # <<>>
                /\ scanned'[1].value[1].groups = Anew.result[1].value[1].groups
                /\ scanned'[1].value[1].position = Anew.result[1].value[1].position]_vars

\* C24: a next() on a file that cannot be read raises the error to the
\* caller, and the next() after one that raised returns no match, even when
\* the file has become readable.
C24_NoMatchAfterReadError ==
    [][/\ (readFails(fsys, searcher[1].file) /\ searcher[1].content = <<>>
           /\ (scanned' # scanned \/ thrown' # thrown))
          => (thrown' /\ scanned' = scanned)
       /\ (thrown /\ scanned' # scanned /\ Len(scanned') > Len(scanned))
          => scanned'[Len(scanned')].value = <<>>]_vars

\* ------------------------------------------------------------------------
\* The Predicate Evaluator (matchSimpleCriteria, matchCriteria)
\* ------------------------------------------------------------------------

\* /d { ab, s { }, l -> s }: the file ab of SmallSize bytes with the given
\* text, readable or not, a directory and a link
MatchFS(text, fail) ==
    (P(<<"d">>) :> Dir(<< <<"a", "b">>, <<"s">>, <<"l">> >>))
    @@ (join(P(<<"d">>), <<"a", "b">>) :>
            Failing(Sized([File EXCEPT !.text = text], SmallSize), fail))
    @@ (P(<<"d", "s">>) :> Dir(<<>>))
    @@ (P(<<"d", "l">>) :> Link(P(<<"d", "s">>)))

\* the Entry lstat makes of the node at path, its link target not resolved
EntryAt(fs, path) ==
    FileObject(Stats(OsLstat(fs, path).type, FALSE), [NoDetails EXCEPT !.fullPath = path])

\* the entries that are matched: the file, the directory and the link
MatchedPaths == {join(P(<<"d">>), <<"a", "b">>), P(<<"d", "s">>), P(<<"d", "l">>)}

\* the values of a criterion that is a bound: not set, one below and one
\* above the value v the entries have
Around(v) == {0, v - 1, v + 1}

\* a name criterion given as a string, and one given as a regular expression
Str(source) == <<[type |-> "string", source |-> source]>>
Re(source) == <<[type |-> "RegExp", source |-> source]>>

\* the queries matchSimpleCriteria is called with: every simple criterion
\* not set, met by the file /d/ab, or not met by it
SimpleCriteria ==
    {[NoCriteria EXCEPT !.minSize = c[1], !.maxSize = c[2],
                        !.minDepth = c[3], !.maxDepth = c[4],
                        !.endsWith = c[5], !.startsWith = c[6]] :
        c \in Around(SmallSize) \X Around(SmallSize) \X Around(2) \X Around(2)
              \X {<<>>, Str(<<"b">>), Str(<<"a">>), Re(<<"a", "$">>)}
              \X {<<>>, Str(<<"a">>), Str(<<"b">>)}}

\* a call of matchSimpleCriteria or matchCriteria: the invocations of its
\* callback (calls) and of onContains (contained, the matches handed over),
\* the matches counted, and whether the loop over the matches is running
Matching(op, criteria, file, calls, running) ==
    [op |-> op, criteria |-> criteria, file |-> file, calls |-> calls,
     contained |-> <<>>, matchCount |-> 0, running |-> running]

\* file.matchSimpleCriteria(criteria, callback)
CallMatchSimpleCriteria ==
    /\ matching = <<>>
    /\ \E path \in MatchedPaths, criteria \in SimpleCriteria :
        LET file == EntryAt(fsys, path)
        IN matching' = <<Matching("matchSimpleCriteria", criteria, file,
                                 matchSimpleCriteriaCalls(criteria, file), FALSE)>>
    /\ UNCHANGED <<searcher, scanned, walkerVars>>

\* a content scan that starts whether or not the structural checks passed
contentScanAnyway(passed, criteria, file) ==
    /\ criteria.contains # <<>>
    /\ criteria.contains[1].type = "RegExp"
    /\ isFile(file)

\* if (criteria.contains && criteria.contains instanceof RegExp)
\*     if (this.isFile()), reached when no structural check returned
contentScan(passed, criteria, file) ==
    /\ passed
    /\ criteria.contains # <<>>
    /\ criteria.contains[1].type = "RegExp"
    /\ isFile(file)

\* if (matchData) criteria.onContains(matchData), of the match value
onContainsCalls(criteria, value) ==
    IF criteria.onContains /\ criteria.bigint # "undefined" THEN <<value>> ELSE <<>>

\* no content scan
NoScan ==
    [searcher |-> <<>>, scanned |-> <<>>, contained |-> <<>>, matchCount |-> 0,
     running |-> FALSE, thrown |-> FALSE]

\* while (!result.done) { matchCount++; ...onContains...; result =
\* searcher.next() } from the result the searcher this returned last; at most
\* MaxCalls results are followed, and running tells that the loop goes on.
\* matchStep is the body of the loop, r what searcher.next() gave.
RECURSIVE matchLoop(_, _, _, _, _), matchStep(_, _, _, _)
matchLoop(fs, criteria, this, result, scan) ==
    IF result.done
    THEN [scan EXCEPT !.searcher = <<this>>]
    ELSE IF Len(scan.scanned) >= MaxCalls
    THEN [scan EXCEPT !.searcher = <<this>>, !.running = TRUE]
    ELSE matchStep(fs, criteria,
                   [scan EXCEPT !.matchCount = @ + 1,
                                !.contained = @ \o onContainsCalls(criteria, result.value[1])],
                   next(fs, this))

matchStep(fs, criteria, counted, r) ==
    IF r.thrown
    THEN [counted EXCEPT !.searcher = <<r.searcher>>, !.thrown = TRUE]
    ELSE matchLoop(fs, criteria, r.searcher, r.result[1],
                   [counted EXCEPT !.scanned = Append(@, r.result[1])])

\* let result = searcher.next(); ... and the loop over the results, r what
\* the first searcher.next() gave
scanFrom(fs, criteria, r) ==
    IF r.thrown
    THEN [NoScan EXCEPT !.searcher = <<r.searcher>>, !.thrown = TRUE]
    ELSE IF r.result[1].value = <<>>
    THEN [NoScan EXCEPT !.searcher = <<r.searcher>>, !.scanned = r.result]
    ELSE matchLoop(fs, criteria, r.searcher, r.result[1],
                   [NoScan EXCEPT !.scanned = r.result])

\* const searcher = new FileContentSearcher(file, criteria.contains, ...)
\* and the scan with it
scanContent(fs, criteria, file) ==
    scanFrom(fs, criteria,
             next(fs, FileContentSearcher(file.fullPath, criteria.contains[1].source)))

\* the return callback(false, file, reason) of the structural checks, <<>>
\* when none of them returns; matchCriteria passes no reason on when
\* matchSimpleCriteria fails
structuralCalls(criteria, file, advanced) ==
    IF ~matchSimpleCriteria(criteria, file) THEN <<[success |-> FALSE, reason |-> ""]>>
    ELSE IF advanced # <<>> THEN <<[success |-> FALSE, reason |-> advanced[1]]>>
    ELSE <<>>

\* the invocations of the callback after the content scan, if there was one
scanCalls(criteria, scan) ==
    LET minMatches == IF criteria.minMatches > 0 THEN criteria.minMatches ELSE 1
        maxMatches == IF criteria.maxMatches > 0 THEN criteria.maxMatches ELSE MAX_SAFE_INTEGER
        rejected(reason) == <<[success |-> FALSE, reason |-> reason]>>
    IN IF scan.thrown \/ scan.running THEN <<>>
       ELSE IF scan.scanned # <<>> /\ scan.scanned[1].value = <<>>
       THEN rejected("minMatches")
       ELSE IF scan.scanned # <<>> /\ scan.matchCount < minMatches
       THEN rejected("minMatches")
       ELSE IF scan.scanned # <<>> /\ scan.matchCount > maxMatches
       THEN rejected("maxMatches")
       ELSE <<[success |-> TRUE, reason |-> ""]>>

\* matchCriteria from the structural checks on, rejected what they returned
matchContent(fs, criteria, file, rejected) ==
    IF contentScan(rejected = <<>>, criteria, file)
    THEN [scan |-> scanContent(fs, criteria, file), calls |-> rejected]
    ELSE [scan |-> NoScan, calls |-> rejected]

\* the callback invoked after the scan, unless it was invoked before
matchCallback(criteria, m) ==
    IF m.calls # <<>> THEN m ELSE [m EXCEPT !.calls = scanCalls(criteria, m.scan)]

\* file.matchCriteria(criteria, callback): the content scan made, and the
\* invocations of the callback
matchCriteriaCall(fs, criteria, file) ==
    matchCallback(criteria,
        matchContent(fs, criteria, file,
            structuralCalls(criteria, file, firstFailing(AdvancedChecks(criteria, file)))))

\* the bounds on the times of a query: none, or one of the six, one below or
\* one above the time the entries have
TimeBounds ==
    {NoCriteria}
    \cup UNION {{[NoCriteria EXCEPT !.maxAccessTime = t], [NoCriteria EXCEPT !.minAccessTime = t],
                 [NoCriteria EXCEPT !.maxChangeTime = t], [NoCriteria EXCEPT !.minChangeTime = t],
                 [NoCriteria EXCEPT !.maxCreateTime = t], [NoCriteria EXCEPT !.minCreateTime = t]} :
                t \in {FileTime - 1, FileTime + 1}}

\* isType: "file", or ["file", ...]
OneType(t) == <<[list |-> FALSE, types |-> {t}]>>
TypeList(types) == <<[list |-> TRUE, types |-> types]>>

TypeFilters ==
    {<<>>, OneType("file"), OneType("directory"), TypeList({"file"}),
     TypeList({"directory", "link"})}

\* the queries whose structural criteria vary, with a content pattern or not
StructuralCriteria ==
    {[c[1] EXCEPT !.minSize = c[2], !.isType = c[3], !.contains = c[4], !.throwErrors = c[5]] :
        c \in TimeBounds \X {0, SmallSize + 1} \X TypeFilters
              \X {<<>>, Re(<<Lit("a")>>)} \X BOOLEAN}

\* the queries whose content criteria vary: the pattern a as a string, and
\* the patterns /a/, /ab/ and /a*/
ContentCriteria ==
    {[NoCriteria EXCEPT !.contains = c[1], !.onContains = c[2], !.bigint = c[3],
                        !.minMatches = c[4][1], !.maxMatches = c[4][2],
                        !.throwErrors = c[5]] :
        c \in {Str(<<Lit("a")>>), Re(<<Lit("a")>>), Re(<<Lit("a"), Lit("b")>>), Re(<<Many("a")>>)}
              \X BOOLEAN \X Tri \X {<<0, 0>>, <<2, 0>>, <<0, 1>>} \X BOOLEAN}

\* file.matchCriteria(criteria, callback)
CallMatchCriteria ==
    /\ matching = <<>>
    /\ \E path \in MatchedPaths, criteria \in StructuralCriteria \cup ContentCriteria :
        \E r \in {matchCriteriaCall(fsys, criteria, EntryAt(fsys, path))} :
           /\ matching' = <<[Matching("matchCriteria", criteria, EntryAt(fsys, path),
                                      r.calls, r.scan.running)
                               EXCEPT !.contained = r.scan.contained,
                                      !.matchCount = r.scan.matchCount]>>
           /\ searcher' = r.scan.searcher
           /\ scanned' = r.scan.scanned
           /\ thrown' = r.scan.thrown
    /\ UNCHANGED <<fsys, callVars>>

\* createCompleteFSQ(queryIn) of a query without size strings and without
\* ignoreWhitespace, for the properties matchCriteria reads: bigint is true
\* or false, the depths have their defaults
completeCriteria(queryIn) ==
    [queryIn EXCEPT !.bigint = IF @ = "true" THEN "true" ELSE "false",
                    !.maxDepth = IF @ > 0 THEN @ ELSE MAX_SAFE_INTEGER,
                    !.minDepth = IF @ > 0 THEN @ ELSE 0]

\* FileObjectCollection.where: let totalChecks = this.length, then
\* for (const file of this) file.matchCriteria(query, (isMatch, file) => {
\*     if (isMatch) result.push(file); if (--totalChecks === 0) callback(result) })
\* whereStep is the body of the loop, m what matchCriteria did
RECURSIVE whereLoop(_, _, _, _), whereStep(_, _, _, _, _)
whereLoop(fs, query, files, w) ==
    IF files = <<>> THEN w
    ELSE whereStep(fs, query, files, w, matchCriteriaCall(fs, query, Head(files)))

whereStep(fs, query, files, w, m) ==
    IF m.scan.thrown THEN [w EXCEPT !.thrown = TRUE]
    ELSE IF m.scan.running THEN [w EXCEPT !.running = TRUE]
    ELSE whereLoop(fs, query, Tail(files),
            [w EXCEPT !.result = IF m.calls[1].success THEN Append(@, Head(files)) ELSE @,
                      !.evaluated = @ + 1,
                      !.totalChecks = @ - 1,
                      !.calls = IF w.totalChecks - 1 = 0
                                THEN Append(@, [files |-> IF m.calls[1].success
                                                          THEN Append(w.result, Head(files))
                                                          ELSE w.result,
                                                after |-> w.evaluated + 1])
                                ELSE @])

\* collection.where(queryIn, callback): the invocations of the callback,
\* each with the collection handed over and the number of members evaluated
\* before it
where(fs, files, queryIn) ==
    whereLoop(fs, completeCriteria(queryIn), files,
              [result |-> <<>>, totalChecks |-> Len(files), evaluated |-> 0,
               calls |-> <<>>, thrown |-> FALSE, running |-> FALSE])

\* the collections where() is called on: at most MaxMembers of the entries
MaxMembers == 2
Collections ==
    {c \in UNION {[1..n -> MatchedPaths] : n \in 0..MaxMembers} :
        \A i, j \in DOMAIN c : i # j => c[i] # c[j]}

\* the queries where() is called with
WhereCriteria == ContentCriteria \cup {[NoCriteria EXCEPT !.isType = t] : t \in TypeFilters}

\* collection.where(queryIn, callback)
CallWhere ==
    /\ matching = <<>>
    /\ \E c \in Collections, queryIn \in WhereCriteria :
        \E w \in {where(fsys, [i \in DOMAIN c |-> EntryAt(fsys, c[i])], queryIn)} :
           /\ matching' = <<[op |-> "where", criteria |-> queryIn,
                             files |-> [i \in DOMAIN c |-> EntryAt(fsys, c[i])],
                             calls |-> w.calls, running |-> w.running]>>
           /\ thrown' = w.thrown
    /\ UNCHANGED <<fsys, searcher, scanned, callVars>>

\* the texts of the file that is matched
MatchTexts == {<<>>, <<"a">>, <<"b", "a", "\n", "a">>}

\* No walker was called; the entries of /d are there to be matched.
MatchInit ==
    /\ \E text \in MatchTexts, fail \in {"none", "read"} : fsys = MatchFS(text, fail)
    /\ searcher = <<>>
    /\ scanned = <<>>
    /\ matching = <<>>
    /\ NoCall

MatchNext ==
    \/ CallMatchSimpleCriteria
    \/ CallMatchCriteria
    \/ CallWhere

MatchSpec == MatchInit /\ [][MatchNext]_vars

\* the simple criteria in the order they are to be evaluated in
SimpleOrder == <<"minSize", "maxSize", "minDepth", "maxDepth", "endsWith", "startsWith">>

\* the Entry does not meet the simple criterion of that name of the query
\* (the size bounds are bounds for files)
Violates(criteria, file, name) ==
    LET size == NodeAt(fsys, file.fullPath).size
        depth == Len(SelectSeq(file.fullPath, LAMBDA c : c = sep))
        named(c, n, m) == IF c[1].type = "string" THEN n ELSE m
    IN CASE name = "minSize" -> file.stats = "file" /\ criteria.minSize > 0 /\ size < criteria.minSize
       [] name = "maxSize" -> file.stats = "file" /\ criteria.maxSize > 0 /\ size > criteria.maxSize
       [] name = "minDepth" -> criteria.minDepth > 0 /\ depth < criteria.minDepth
       [] name = "maxDepth" -> criteria.maxDepth > 0 /\ depth > criteria.maxDepth
       [] name = "endsWith" ->
            /\ criteria.endsWith # <<>>
            /\ IF criteria.endsWith[1].type = "string"
               THEN ~\E k \in 0..Len(file.name) : slice(file.name, k) = criteria.endsWith[1].source
               ELSE ~RegExpTest(criteria.endsWith[1].source, file.name)
       [] name = "startsWith" ->
            /\ criteria.startsWith # <<>>
            /\ IF criteria.startsWith[1].type = "string"
               THEN ~\E k \in 0..Len(file.name) :
                        SubSeq(file.name, 1, k) = criteria.startsWith[1].source
               ELSE ~RegExpTest(criteria.startsWith[1].source, file.name)

Violated(criteria, file) ==
    {i \in DOMAIN SimpleOrder : Violates(criteria, file, SimpleOrder[i])}

\* C26: matchSimpleCriteria invokes its callback exactly once: with success
\* when the Entry meets every simple criterion, and otherwise with the
\* reason that names the first criterion, in the order size, minimum depth,
\* maximum depth, suffix, prefix, that the Entry does not meet (the only
\* one, when there is only one).
C26_FirstFailingSimpleCriterion ==
    (matching # <<>> /\ matching[1].op = "matchSimpleCriteria")
    => LET m == matching[1]
           violated == Violated(m.criteria, m.file)
       IN /\ Len(m.calls) = 1
          /\ m.calls[1].success <=> violated = {}
          /\ violated # {} => m.calls[1].reason = SimpleOrder[Smallest(violated)]

\* the file does not meet three criteria, a depth bound the first of them
C26_Witness ==
    /\ matching # <<>> /\ matching[1].op = "matchSimpleCriteria"
    /\ Cardinality(Violated(matching[1].criteria, matching[1].file)) = 3
    /\ matching[1].calls = <<[success |-> FALSE, reason |-> "minDepth"]>>

\* a call of matchCriteria has returned, thrown, or is in its loop
Matched == matching # <<>> /\ matching[1].op = "matchCriteria"

\* matchCriteria went to read the content of a file that cannot be read
ContentReadFailed ==
    /\ Matched
    /\ searcher # <<>>
    /\ readFails(fsys, searcher[1].file)

\* C25: when the content of the file cannot be read and throwErrors is
\* false, matchCriteria throws nothing and reports the entry once, as a
\* failed match whose reason is not the one of a file without matches.
C25_ReadFailureNotThrown ==
    (ContentReadFailed /\ ~matching[1].criteria.throwErrors)
    => /\ ~thrown
       /\ Len(matching[1].calls) = 1
       /\ ~matching[1].calls[1].success
       /\ matching[1].calls[1].reason # "minMatches"

\* the times of the entry are within the bounds the query sets
TimesWithin(criteria, file) ==
    LET t == OsLstat(fsys, file.fullPath)
        within(min, at, max) == (min = 0 \/ min <= at) /\ (max = 0 \/ at <= max)
    IN /\ within(criteria.minAccessTime, t.atimeMs, criteria.maxAccessTime)
       /\ within(criteria.minChangeTime, t.ctimeMs, criteria.maxChangeTime)
       /\ within(criteria.minCreateTime, t.birthtimeMs, criteria.maxCreateTime)

\* the type of the entry, a link a link
TypeOf(file) == NodeAt(fsys, file.fullPath).type

\* the query names types, as one type or as a list, and the type of the
\* entry is not among them
TypeNotNamed(criteria, file) ==
    criteria.isType # <<>> /\ TypeOf(file) \notin criteria.isType[1].types

\* the type filter rejects the entry: the query lists types, and the type
\* of the entry is not among them
TypeNotListed(criteria, file) ==
    TypeNotNamed(criteria, file) /\ criteria.isType[1].list

ContentWanted ==
    /\ Matched
    /\ matching[1].criteria.contains # <<>>
    /\ TypeOf(matching[1].file) = "file"
    /\ ~readFails(fsys, matching[1].file.fullPath)
    /\ Violated(matching[1].criteria, matching[1].file) = {}
    /\ TimesWithin(matching[1].criteria, matching[1].file)
    /\ ~TypeNotNamed(matching[1].criteria, matching[1].file)

\* the occurrences of the content pattern of the query in the text of the
\* file, in the order of the text
Occurrences ==
    matchAll(matching[1].criteria.contains[1].source,
             NodeAt(fsys, matching[1].file.fullPath).text, 0)

\* C28: a file that meets the structural criteria and whose text has no
\* occurrence of the content pattern of the query, a string or a regular
\* expression, is rejected with the reason minMatches.
C28_NoOccurrenceIsMinMatches ==
    (ContentWanted /\ Occurrences = <<>>)
    => matching[1].calls = <<[success |-> FALSE, reason |-> "minMatches"]>>

\* the matches onContains was invoked with, in the order of the invocations
Contained == [i \in DOMAIN matching[1].contained |-> matching[1].contained[i].groups]

\* C29: for a query with a content pattern and onContains, onContains is
\* invoked once for every occurrence of the pattern in the file, in the
\* order of the text, as the occurrences are counted: it was invoked for
\* every match counted so far, and for all of them when matchCriteria
\* invokes its own callback.
C29_OnContainsOncePerMatch ==
    (ContentWanted /\ matching[1].criteria.onContains)
    => /\ Len(Contained) = matching[1].matchCount
       /\ Len(Contained) <= Len(Occurrences)
       /\ Contained = SubSeq(Occurrences, 1, Len(Contained))
       /\ matching[1].calls # <<>> => Contained = Occurrences

\* C30: an entry that meets the simple criteria and the bounds on the
\* times, and whose type is not the type, or not among the types, that
\* isType names, is rejected with the reason isType.
C30_TypeFilterRejects ==
    (/\ Matched
     /\ Violated(matching[1].criteria, matching[1].file) = {}
     /\ TimesWithin(matching[1].criteria, matching[1].file)
     /\ TypeNotNamed(matching[1].criteria, matching[1].file))
    => matching[1].calls = <<[success |-> FALSE, reason |-> "isType"]>>

\* ------------------------------------------------------------------------
\* The Entries of the trees handed to the caller
\* ------------------------------------------------------------------------

\* the Entries handed to the caller: returned, or given to its callback
Handed ==
    {returned[i] : i \in DOMAIN returned}
    \cup {delivered[i].file[1] : i \in {j \in DOMAIN delivered : delivered[j].file # <<>>}}

\* the Entry, its children and its link target, and theirs
RECURSIVE EntriesOf(_)
EntriesOf(e) ==
    {e}
    \cup (IF e.children = <<>> THEN {}
          ELSE UNION {EntriesOf(e.children[1][i]) : i \in DOMAIN e.children[1]})
    \cup (IF e.linkTarget = <<>> THEN {} ELSE EntriesOf(e.linkTarget[1]))

\* the type predicates that answer true for the Entry; the filesystems of
\* the model hold no devices, FIFOs or sockets
TruePredicates(e) ==
    (IF isFile(e) THEN {"isFile"} ELSE {})
    \cup (IF isDirectory(e) THEN {"isDirectory"} ELSE {})
    \cup (IF isSymbolicLink(e) THEN {"isSymbolicLink"} ELSE {})

\* C31: for every Entry of a tree handed to the caller that is not a
\* placeholder, the children made under a followed link included, exactly
\* one type predicate is true, or isSymbolicLink and isDirectory both are.
C31_OneTypePredicate ==
    \A h \in Handed : \A e \in EntriesOf(h) :
        e.stats # "none" =>
            \/ Cardinality(TruePredicates(e)) = 1
            \/ TruePredicates(e) = {"isSymbolicLink", "isDirectory"}

\* this.depth = FileObject.getDepth(this.fullPath)
depth(e) == getDepth(e.fullPath)

\* C32: in every tree handed to the caller, an Entry in the children of
\* another one, the children made under a followed link included, has the
\* depth of that Entry plus one.
C32_ChildDepthIsParentDepthPlusOne ==
    \A h \in Handed : \A d \in EntriesOf(h) :
        d.children # <<>> =>
            \A i \in DOMAIN d.children[1] : depth(d.children[1][i]) = depth(d) + 1

\* the Entries of the tree whose stats are of the other numeric kind than
\* the one the options of the call ask for
Mixed(h) == {e \in EntriesOf(h) : e.bigint # o.bigint}

\* C33: all Entries of a tree handed to the caller, placeholders and link
\* targets included, have stats of the numeric kind of the call: bigint
\* when the options set bigint, native numbers otherwise.
C33_OneNumericRepresentation ==
    \A h \in Handed : Mixed(h) = {}

\* a call of where() has returned, thrown, or is in a loop that does not end
Filtered == matching # <<>> /\ matching[1].op = "where"

\* the walk evaluates the query, completed, on the Entry, and hands the
\* Entry on when its callback is told of a match
WalkMatches(queryIn, file) ==
    matchCriteriaCall(fsys, completeCriteria(queryIn), file).calls
        = <<[success |-> TRUE, reason |-> ""]>>

\* C34: where() hands its callback the members of the collection that the
\* walk, evaluating the same query on them, hands on, which needs the
\* evaluation of an Entry and a query to give one verdict each time.
C34_WhereYieldsTheWalkMatches ==
    Filtered =>
        /\ Len(matching[1].calls) = 1
        /\ matching[1].calls[1].files
            = SelectSeq(matching[1].files, LAMBDA f : WalkMatches(matching[1].criteria, f))

\* the members of the collection were evaluated and none of the evaluations
\* threw or stayed in its loop
AllEvaluated == Filtered /\ ~thrown /\ ~matching[1].running

\* C39: where() invokes its callback exactly once for every collection, the
\* empty one included, and after every member has been evaluated.
C39_WhereCallsBackOnce ==
    AllEvaluated =>
        /\ Len(matching[1].calls) = 1
        /\ matching[1].calls[1].after = Len(matching[1].files)

\* taskCallback emits 'worker.done' when its task was the last active one:
\* if (this.activeTasks.length === 0) this.emit('worker.done'); in every
\* other case its runTasks() follows, and a task stays active
WorkerDone == TaskCallback /\ activeTasks' = <<>>

\* C37: the scheduler emits 'worker.done' only in a state where no task is
\* running and no task is waiting in the queue.
C37_WorkerDoneOnlyWhenIdle ==
    [][WorkerDone => (activeTasks' = <<>> /\ taskList' = <<>>)]_vars

\* ------------------------------------------------------------------------
\* The worker under two queries: a walk whose statPathlike calls enqueue
\* their tasks over time, and another query that is normalized meanwhile.
\* The worker is the one FileWorker object of the module (part_004 381-382).
\* ------------------------------------------------------------------------

\* the statPathlike calls the walk makes
MaxStats == 4

\* createCompleteRPL(queryIn).maxConcurrency; 0 stands for a query that
\* leaves maxConcurrency out
completeMaxConcurrency(c) == IF c > 0 THEN c ELSE MAX_SAFE_INTEGER

\* createCompleteRPL(queryIn).worker: FileWorker.setMaxConcurrency(queryIn.maxConcurrency)
completeWorker(M, c) == setMaxConcurrency(M, c)

\* the completed query of the walk in progress
WalkQuery(c) == [maxConcurrency |-> completeMaxConcurrency(c)]

\* statPathlike(pathLike, callback, query) of the walk, its i-th:
\* const query = createCompleteRPL(queryIn); FileWorker.enqueue(() => fs.lstat(...))
walkStat(M, query, i) ==
    enqueue(completeWorker(M, query.maxConcurrency),
            Task("s.lstat", P(<<"d">>), "undefined", FsqCont(i), <<>>))

\* the caller starts the walk: the first statPathlike call
StartWalk ==
    /\ call = "none"
    /\ \E c \in 0..MaxConc :
        /\ o' = WalkQuery(c)
        /\ Becomes(walkStat([Machine EXCEPT !.started = {1}], WalkQuery(c), 1))
    /\ call' = "statPathlike"
    /\ UNCHANGED <<fsys, shape, expr, returned, searcher, scanned, matching>>

\* a callback of the walk makes its next statPathlike call
WalkStat ==
    /\ call = "statPathlike"
    /\ Cardinality(started) < MaxStats
    /\ LET i == Cardinality(started) + 1
       IN Becomes(walkStat([Machine EXCEPT !.started = @ \cup {i}], o, i))
    /\ UNCHANGED <<fsys, call, shape, o, expr, returned, searcher, scanned, matching>>

\* another query is normalized while the walk is in progress:
\* createCompleteRPL(other) or createCompleteFSQ(other)
NormalizeOther ==
    /\ call = "statPathlike"
    /\ \E c \in 0..MaxConc : Becomes(completeWorker(Machine, c))
    /\ UNCHANGED <<fsys, call, shape, o, expr, returned, searcher, scanned, matching>>

\* the event loop runs the next taskCallback; the body of the task has
\* started its fs.lstat and returned
WorkerTaskCallback ==
    /\ call = "statPathlike"
    /\ immediates # <<>>
    /\ Becomes(taskCompleted([Machine EXCEPT !.immediates = Tail(@)], Head(immediates)))
    /\ UNCHANGED <<fsys, call, shape, o, expr, returned, searcher, scanned, matching>>

WorkerInit == Init /\ fsys = FlatDir(0)

WorkerNext ==
    \/ StartWalk
    \/ WalkStat
    \/ NormalizeOther
    \/ WorkerTaskCallback

WorkerSpec == WorkerInit /\ [][WorkerNext]_vars

\* the walk is in progress: it has tasks in the worker
WalkInProgress == call = "statPathlike" /\ (taskList # <<>> \/ activeTasks # <<>>)

\* C38: the concurrency bound in effect for a walk in progress is the one of
\* the walk's own query, whatever other query is normalized or started
\* meanwhile, and the number of running tasks never exceeds the bound
\* currently configured.
C38_BoundIsTheWalksOwn ==
    WalkInProgress =>
        /\ maxConcurrency = o.maxConcurrency
        /\ Len(activeTasks) <= maxConcurrency

\* ------------------------------------------------------------------------
\* Query normalization: createCompleteFSQ and createCompleteRPL
\* (src/fs/FileTypedefs.ts).  A property of a query object is <<>> when
\* it is left out (undefined) and <<v>> when it has the value v.  A string
\* is the sequence of its characters.
\* ------------------------------------------------------------------------

DigitChars == <<"0", "1", "2", "3", "4", "5", "6", "7", "8", "9">>
IsDigit(ch) == \E i \in DOMAIN DigitChars : DigitChars[i] = ch
DigitValue(ch) == (CHOOSE i \in DOMAIN DigitChars : DigitChars[i] = ch) - 1

\* String.prototype.toUpperCase for one character
toUpperCase(ch) ==
    LET lower == <<"k", "m", "g", "t", "p", "e", "z", "y", "i", "b", "x">>
        upper == <<"K", "M", "G", "T", "P", "E", "Z", "Y", "I", "B", "X">>
    IN IF \E i \in DOMAIN lower : lower[i] = ch
       THEN upper[CHOOSE i \in DOMAIN lower : lower[i] = ch]
       ELSE ch

UpperCase(str) == [i \in DOMAIN str |-> toUpperCase(str[i])]

\* the classes of the expression /^(?<qty>[\d\._\,]+)(?<unit>[KMGTPEZY]*i?B)/i
IsQtyChar(ch) == IsDigit(ch) \/ ch \in {".", "_", ","}
IsPrefixChar(ch) == toUpperCase(ch) \in {"K", "M", "G", "T", "P", "E", "Z", "Y"}

\* the length of the longest run of characters of a class that starts at
\* position from of str
RunOfQty(str, from) ==
    CHOOSE n \in 0..(Len(str) - from + 1) :
        /\ \A i \in from..(from + n - 1) : IsQtyChar(str[i])
        /\ from + n <= Len(str) => ~IsQtyChar(str[from + n])
RunOfPrefix(str, from) ==
    CHOOSE n \in 0..(Len(str) - from + 1) :
        /\ \A i \in from..(from + n - 1) : IsPrefixChar(str[i])
        /\ from + n <= Len(str) => ~IsPrefixChar(str[from + n])
RunOfDigits(str, from) ==
    CHOOSE n \in 0..(Len(str) - from + 1) :
        /\ \A i \in from..(from + n - 1) : IsDigit(str[i])
        /\ from + n <= Len(str) => ~IsDigit(str[from + n])

\* where the unit of the expression ends when its letters [KMGTPEZY]* end
\* before position at: after "iB", after "B", or 0 when i?B does not match
UnitEnd(spec, at) ==
    IF at + 1 <= Len(spec) /\ toUpperCase(spec[at]) = "I" /\ toUpperCase(spec[at + 1]) = "B"
    THEN at + 1
    ELSE IF at <= Len(spec) /\ toUpperCase(spec[at]) = "B" THEN at
    ELSE 0

\* the expression applied to spec: <<>> for null, else the groups qty and unit
\* and the index after the match
sizeExec(spec) ==
    LET q == RunOfQty(spec, 1)
        e == UnitEnd(spec, q + 1 + RunOfPrefix(spec, q + 1))
    IN IF q = 0 \/ e = 0 THEN <<>>
       ELSE <<[qty |-> SubSeq(spec, 1, q), unit |-> SubSeq(spec, q + 1, e), lastIndex |-> e]>>

\* a number: not-a-number, or int.frac * base^exp
Num(int, frac, base, exp) == [nan |-> FALSE, int |-> int, frac |-> frac, base |-> base, exp |-> exp]
NotANumber == [nan |-> TRUE, int |-> 0, frac |-> <<>>, base |-> 1, exp |-> 0]
Zero == Num(0, <<>>, 1, 0)

RECURSIVE IntOf(_)
IntOf(digits) ==
    IF digits = <<>> THEN 0
    ELSE 10 * IntOf(SubSeq(digits, 1, Len(digits) - 1)) + DigitValue(digits[Len(digits)])

RECURSIVE StripZeros(_)
StripZeros(digits) ==
    IF digits # <<>> /\ digits[Len(digits)] = "0"
    THEN StripZeros(SubSeq(digits, 1, Len(digits) - 1))
    ELSE digits

\* parseFloat(qty) of a run of the characters [\d\._\,]: the digits, a
\* point and the digits after it; what follows is ignored
parseFloat(qty) ==
    LET i == RunOfDigits(qty, 1)
        f == IF i + 1 <= Len(qty) /\ qty[i + 1] = "." THEN RunOfDigits(qty, i + 2) ELSE 0
    IN IF i = 0 /\ f = 0 THEN NotANumber
       ELSE Num(IntOf(SubSeq(qty, 1, i)), StripZeros(SubSeq(qty, i + 2, i + 1 + f)), 1, 0)

\* unitLookup: B: 1, KB: 10 ** 3, KIB: 2 ** 10, ... YB: 10 ** 24, YIB: 2 ** 80,
\* each as <<base, exponent>>
UnitPrefixes == <<"K", "M", "G", "T", "P", "E", "Z", "Y">>
unitLookup ==
    [u \in {<<"B">>} \cup {<<UnitPrefixes[k], "B">> : k \in DOMAIN UnitPrefixes}
                     \cup {<<UnitPrefixes[k], "I", "B">> : k \in DOMAIN UnitPrefixes} |->
        IF Len(u) = 1 THEN <<1, 0>>
        ELSE LET k == CHOOSE j \in DOMAIN UnitPrefixes : UnitPrefixes[j] = u[1]
             IN IF Len(u) = 2 THEN <<10, 3 * k>> ELSE <<2, 10 * k>>]

\* parseFloat(qty) * unitSize, unitSize being 0 for a unit that is not in
\* unitLookup
sizeProduct(n, unit) ==
    IF n.nan THEN NotANumber
    ELSE IF unit \notin DOMAIN unitLookup \/ (n.int = 0 /\ n.frac = <<>>) THEN Zero
    ELSE Num(n.int, n.frac, unitLookup[unit][1], unitLookup[unit][2])

\* a size of a query: a number or a string
SizeNumber(n) == [type |-> "number", n |-> n, s |-> <<>>]
SizeString(s) == [type |-> "string", n |-> Zero, s |-> s]

\* expandSizeStrings(spec): the value returned, or the Error thrown
expandSizeStrings(spec) ==
    IF spec # <<>> /\ spec[1].type = "string"
    THEN LET m == sizeExec(spec[1].s)
         IN IF m # <<>>
            THEN [thrown |-> FALSE,
                  value |-> <<SizeNumber(sizeProduct(parseFloat(m[1].qty), UpperCase(m[1].unit)))>>]
            ELSE [thrown |-> TRUE, value |-> <<>>]
    ELSE [thrown |-> FALSE, value |-> spec]

\* queryIn.x === true
IsTrue(v) == <<v = <<TRUE>>>>

\* typeof queryIn.x === 'number' && queryIn.x > 0 && queryIn.x || default
PositiveOr(v, default) == IF v # <<>> /\ v[1] > 0 THEN v ELSE <<default>>

\* createCompleteRPL(queryIn): the properties of the object it returns, the
\* spread of queryIn with the listed properties set
createCompleteRPL(queryIn) ==
    [queryIn EXCEPT
        !.bigint = IsTrue(@),
        !.buffer = IsTrue(@),
        !.encoding = IF @ = <<>> THEN <<"utf8">> ELSE @,
        !.expr = IF @ = <<>> THEN <<<<>>>> ELSE @,
        !.followLinks = IsTrue(@),
        !.maxConcurrency = PositiveOr(@, MAX_SAFE_INTEGER),
        !.maxDepth = PositiveOr(@, MAX_SAFE_INTEGER),
        !.minDepth = PositiveOr(@, 0),
        !.maxSize = expandSizeStrings(@).value,
        !.minSize = expandSizeStrings(@).value,
        !.recursive = IsTrue(@),
        !.singleFS = IsTrue(@),
        !.throwErrors = IF @ = <<>> THEN <<TRUE>> ELSE @]

\* a content pattern of a query
PatternString(s) == [type |-> "string", source |-> s, flags |-> <<>>]
PatternRegExp(source, flags) == [type |-> "RegExp", source |-> source, flags |-> flags]

\* str.split(/\s+/).join('\\s+'): every run of whitespace becomes \s+
RECURSIVE splitJoin(_)
splitJoin(str) ==
    IF str = <<>> THEN <<>>
    ELSE IF str[1] # " " THEN <<str[1]>> \o splitJoin(Tail(str))
    ELSE IF Len(str) > 1 /\ str[2] = " " THEN splitJoin(Tail(str))
    ELSE <<"\\", "s", "+">> \o splitJoin(Tail(str))

\* createCompleteFSQ(queryIn): the properties of the object it returns
createCompleteFSQ(queryIn) ==
    LET rpl == createCompleteRPL(queryIn)
        ignoreCase == queryIn.ignoreCase = <<TRUE>>
        ignoreWhitespace == queryIn.ignoreWhitespace = <<TRUE>>
    IN [rpl EXCEPT
        !.contains = IF queryIn.contains # <<>> /\ queryIn.contains[1].type = "string"
                         /\ ignoreWhitespace
                     THEN <<PatternRegExp(splitJoin(queryIn.contains[1].source),
                                          IF ignoreCase THEN <<"i">> ELSE <<>>)>>
                     ELSE queryIn.contains,
        !.ignoreCase = <<ignoreCase>>,
        !.ignoreWhitespace = <<ignoreWhitespace>>]

\* createCompleteFSQ throws when expandSizeStrings does
normalizeThrows(queryIn) ==
    expandSizeStrings(queryIn.maxSize).thrown \/ expandSizeStrings(queryIn.minSize).thrown

\* the normalizer that fills the caller's object in
queryInAssigned(queryIn, result) == result

\* the caller's object after the call: const result = { ...queryIn, ... }
\* is a new object, and no statement assigns to a property of queryIn
queryInAfter(queryIn, result) == queryIn

\* a query that leaves every property out
NoQuery ==
    [bigint |-> <<>>, buffer |-> <<>>, encoding |-> <<>>, expr |-> <<>>, followLinks |-> <<>>,
     maxConcurrency |-> <<>>, maxDepth |-> <<>>, minDepth |-> <<>>, maxSize |-> <<>>,
     minSize |-> <<>>, recursive |-> <<>>, singleFS |-> <<>>, throwErrors |-> <<>>,
     contains |-> <<>>, ignoreCase |-> <<>>, ignoreWhitespace |-> <<>>]

\* the size strings: at most MaxSpec characters of SpecChars
MaxSpec == 4
SpecChars == {"1", "0", ",", "K", "m", "i", "B", "x"}
SizeSpecs == UNION {[1..n -> SpecChars] : n \in 1..MaxSpec}

Maybe(values) == {<<>>} \cup {<<v>> : v \in values}

\* the queries that are normalized: one size string, or a choice of the
\* other properties
SizeQueries ==
    {[NoQuery EXCEPT !.minSize = <<SizeString(s)>>] : s \in SizeSpecs}
    \cup {[NoQuery EXCEPT !.maxSize = <<SizeString(s)>>] : s \in {<<"1", "K", "B">>, <<"1", "x">>}}
FieldQueries ==
    {[NoQuery EXCEPT !.bigint = c[1], !.buffer = c[1], !.throwErrors = c[2], !.recursive = c[2],
                     !.maxDepth = c[3], !.minDepth = c[3], !.maxConcurrency = c[4],
                     !.contains = c[5], !.ignoreWhitespace = c[6], !.ignoreCase = c[7],
                     !.minSize = c[8]] :
        c \in Maybe(BOOLEAN) \X Maybe(BOOLEAN) \X Maybe({0, 2}) \X Maybe({1})
              \X Maybe({PatternString(<<"a", " ", " ", "b">>), PatternRegExp(<<"a", "+">>, <<>>)})
              \X Maybe(BOOLEAN) \X Maybe({TRUE})
              \X Maybe({SizeNumber(Num(50, <<>>, 1, 0)), SizeString(<<"1", ".", "5", "0", "k", "i", "b">>)})}

\* the call of createCompleteFSQ and what came of it
Normalizing(queryIn, after, result, again) ==
    [op |-> "createCompleteFSQ", queryIn |-> queryIn, after |-> after, result |-> result,
     again |-> again]

\* createCompleteFSQ(queryIn)
CallCreateCompleteFSQ ==
    /\ matching = <<>>
    /\ \E queryIn \in SizeQueries \cup FieldQueries :
        IF normalizeThrows(queryIn)
        THEN /\ thrown' = TRUE
             /\ matching' = <<Normalizing(queryIn, queryIn, <<>>, <<>>)>>
             /\ UNCHANGED maxConcurrency
        ELSE \E result \in {createCompleteFSQ(queryIn)} :
             /\ thrown' = FALSE
             /\ matching' = <<Normalizing(queryIn, queryInAfter(queryIn, result), <<result>>, <<>>)>>
             /\ maxConcurrency' = completeWorker(Machine,
                    IF queryIn.maxConcurrency = <<>> THEN 0 ELSE queryIn.maxConcurrency[1]).maxConcurrency
    /\ UNCHANGED <<fsys, searcher, scanned, call, shape, o, expr, taskList, activeTasks,
                   immediates, probes, frames, started, delivered, returned, crashed>>

\* createCompleteFSQ(query) of the query the first call returned
CallCreateCompleteFSQAgain ==
    /\ matching # <<>> /\ matching[1].op = "createCompleteFSQ"
    /\ matching[1].result # <<>> /\ matching[1].again = <<>>
    /\ ~normalizeThrows(matching[1].result[1])
    /\ \E result \in {createCompleteFSQ(matching[1].result[1])} :
        /\ matching' = <<[matching[1] EXCEPT !.again = <<result>>]>>
        /\ maxConcurrency' = completeWorker(Machine, matching[1].result[1].maxConcurrency[1]).maxConcurrency
    /\ UNCHANGED <<fsys, thrown, searcher, scanned, call, shape, o, expr, taskList, activeTasks,
                   immediates, probes, frames, started, delivered, returned, crashed>>

NormInit == Init /\ fsys = FlatDir(0)

NormNext ==
    \/ CallCreateCompleteFSQ
    \/ CallCreateCompleteFSQAgain

NormSpec == NormInit /\ [][NormNext]_vars

\* createCompleteFSQ was called
Normalized == matching # <<>> /\ matching[1].op = "createCompleteFSQ"

\* a quantity: a run of the characters a quantity is written with
IsQuantity(str) == str # <<>> /\ \A i \in DOMAIN str : IsQtyChar(str[i])

\* a size string is a quantity followed by one unit of the tables, B, KB,
\* MB, ... or KiB, MiB, ..., in either case of the letters, and nothing else
IsSizeSpec(str) ==
    \E n \in 1..Len(str) :
        /\ IsQuantity(SubSeq(str, 1, n))
        /\ UpperCase(SubSeq(str, n + 1, Len(str))) \in DOMAIN unitLookup

\* the size strings of the query
SizeStringsOf(q) ==
    {v[1].s : v \in {w \in {q.minSize, q.maxSize} : w # <<>> /\ w[1].type = "string"}}

\* C35: normalization raises an error for every size string that is not
\* exactly a quantity followed by one unit of the decimal or binary table,
\* unknown unit-letter combinations and trailing characters included; it
\* never returns a byte count for such a string.
C35_MalformedSizeRaises ==
    (Normalized /\ \E str \in SizeStringsOf(matching[1].queryIn) : ~IsSizeSpec(str))
        => (thrown /\ matching[1].result = <<>>)

OneLevelAsked(convention) ==
    /\ call = convention
    /\ o.wantChildren = "true" /\ ~o.recursive
    /\ OsLstat(fsys, expr[1]).type = "directory"
    /\ \A path \in DOMAIN fsys : fsys[path].type # "link"

\* the sub-directories among the children of the Entries handed over have
\* children undefined
SubDirectoriesBare ==
    \A h \in Handed :
        h.children # <<>> =>
            \A i \in DOMAIN h.children[1] :
                h.children[1][i].stats = "directory" => h.children[1][i].children = <<>>

\* no probe in flight is for an entry of a sub-directory
NoProbeBelowChildren == \A p \in probes : getDepth(p.path) <= getDepth(expr[1]) + 1

\* C40: when recursive is not set, a stat of a directory that asks for its
\* children expands exactly one level, in the synchronous and in the
\* asynchronous convention: the sub-directories among the children have
\* children undefined and none of their entries is probed.
C40_OneLevelOfChildren ==
    (OneLevelAsked("lstatSync") \/ OneLevelAsked("lstatCallback"))
        => (SubDirectoriesBare /\ NoProbeBelowChildren)

====
